---- MODULE Spec2Model ----
(***************************************************************************)
(* Event-sourcing core of the listicle extension: the Entity /             *)
(* AggregateRoot primitives, the List and Item aggregates, the event store *)
(* and the projection tables of the local database.                        *)
(*                                                                         *)
(* Strings that the code validates (list name, icon, colour) are sequences *)
(* of one-character strings, so that length, trim and pattern checks are   *)
(* computed.  Strings the code only compares or copies are TLA+ strings.   *)
(* A Date is a natural number read from the variable clock.                *)
(***************************************************************************)
EXTENDS Integers, Sequences, FiniteSets, TLC

VARIABLES
  agg,              \* the aggregate instance a caller holds: NoAgg, a List or an Item
  last,             \* the last call made on agg or on the store: operation, argument, state before, outcome
  clock,            \* the instant new Date() returns
  listEvents,       \* table listEvents (insertion order)
  itemEvents,       \* table itemEvents (insertion order)
  listProjections,  \* table listProjections, keyed by id
  itemProjections,  \* table itemProjections, keyed by id
  triples,          \* table triples (auto-increment key: insertion order)
  written,          \* how many events the store has written since it was opened
  pc                \* where the service command in progress stands

vars == <<agg, last, clock, listEvents, itemEvents, listProjections, itemProjections, triples,
          written, pc>>
storeVars == <<listEvents, itemEvents, listProjections, itemProjections, triples>>

----------------------------------------------------------------------------
(* Bounds *)

MaxClock == 2
MaxSeq == 3
MaxLog == 2
MaxItemLog == 3
MaxTriples == 2

----------------------------------------------------------------------------
(* Values *)

Undef == "undefined"
UndefStr == <<"undefined">>   \* undefined where the code expects a validated string
NoErr == ""
NoAgg == [kind |-> "none"]
NoRow == [absent |-> TRUE]

EmptyStr == << >>
Blank == <<" ">>
NameA == <<"a">>
NameB == <<"b">>
IconA == <<"i">>
IconB == <<"j">>
Red == <<"r", "e", "d">>
Blue == <<"b", "l", "u", "e">>
HexF0F == <<"#", "f", "0", "f">>

ValidNames == {NameA, NameB}
ValidIcons == {IconA, IconB}
ValidColors == {Red, HexF0F}
NameInputs == ValidNames \cup {EmptyStr}
IconInputs == ValidIcons \cup {EmptyStr}
ColorInputs == ValidColors \cup {<<"x">>}

ListIds == {"L1", "L2"}
ItemIds == {"u1", "u2"}
HeldListIds == {"L1"}
HeldItemIds == {"u1"}
CallerListIds == {"L2"}
CallerItemIds == {"u2"}
Orders == {0, 1}

JsonEmpty == << >>
JsonA == << <<"name", "n1">> >>
JsonB == << <<"name", "n2">> >>
JsonLds == {JsonA, JsonB}
ItemNames == {"n1", "n2"}

MaxNameLen == 100
MaxIconLen == 50

----------------------------------------------------------------------------
(* String helpers: String.prototype.trim, toLowerCase, the hex regexp *)

WhiteSpace == {" ", "\t", "\n"}

RECURSIVE TrimLeft(_)
TrimLeft(s) ==
  IF s = << >> THEN s
  ELSE IF Head(s) \in WhiteSpace THEN TrimLeft(Tail(s)) ELSE s

RECURSIVE TrimRight(_)
TrimRight(s) ==
  IF s = << >> THEN s
  ELSE IF s[Len(s)] \in WhiteSpace THEN TrimRight(SubSeq(s, 1, Len(s) - 1)) ELSE s

Trim(s) == TrimRight(TrimLeft(s))

UpperToLower ==
  [c \in {"A", "B", "C", "D", "E", "F"} |->
     CASE c = "A" -> "a" [] c = "B" -> "b" [] c = "C" -> "c"
       [] c = "D" -> "d" [] c = "E" -> "e" [] c = "F" -> "f"]

ToLowerCase(s) ==
  [i \in 1..Len(s) |-> IF s[i] \in DOMAIN UpperToLower THEN UpperToLower[s[i]] ELSE s[i]]

HexDigits ==
  {"0", "1", "2", "3", "4", "5", "6", "7", "8", "9",
   "a", "b", "c", "d", "e", "f", "A", "B", "C", "D", "E", "F"}

HexPatternTest(s) ==
  /\ Len(s) \in {4, 7}
  /\ s[1] = "#"
  /\ \A i \in 2..Len(s) : s[i] \in HexDigits

cssColorNames ==
  { <<"r","e","d">>, <<"b","l","u","e">>, <<"g","r","e","e","n">>,
    <<"y","e","l","l","o","w">>, <<"o","r","a","n","g","e">>,
    <<"p","u","r","p","l","e">>, <<"p","i","n","k">>, <<"b","r","o","w","n">>,
    <<"b","l","a","c","k">>, <<"w","h","i","t","e">>, <<"g","r","a","y">>,
    <<"g","r","e","y">>, <<"c","y","a","n">>, <<"m","a","g","e","n","t","a">>,
    <<"l","i","m","e">>, <<"n","a","v","y">>, <<"o","l","i","v","e">>,
    <<"t","e","a","l">>, <<"s","i","l","v","e","r">>, <<"m","a","r","o","o","n">> }

----------------------------------------------------------------------------
(* ListMetadata value object *)

\* the length test with >= in place of >
validateName_RejectsAtLimit(name) ==
  IF Len(name) = 0 \/ Len(Trim(name)) = 0 THEN "List name cannot be empty"
  ELSE IF Len(name) >= MaxNameLen THEN "List name cannot exceed 100 characters"
  ELSE NoErr

validateName(name) ==
  IF Len(name) = 0 \/ Len(Trim(name)) = 0 THEN "List name cannot be empty"
  ELSE IF Len(name) > MaxNameLen THEN "List name cannot exceed 100 characters"
  ELSE NoErr

validateIcon(icon) ==
  IF Len(icon) = 0 \/ Len(Trim(icon)) = 0 THEN "List icon cannot be empty"
  ELSE IF Len(icon) > MaxIconLen THEN "List icon cannot exceed 50 characters"
  ELSE NoErr

validateColor(color) ==
  IF Len(color) = 0 \/ Len(Trim(color)) = 0 THEN "List color cannot be empty"
  ELSE IF ~HexPatternTest(color) /\ ToLowerCase(color) \notin cssColorNames
    THEN "List color must be a valid hex color (#RRGGBB) or CSS color name"
  ELSE NoErr

\* new ListMetadata(name, icon, color): the first failing validation throws
ListMetadata(name, icon, color) ==
  LET e1 == validateName(name)
      e2 == validateIcon(icon)
      e3 == validateColor(color)
      err == IF e1 # NoErr THEN e1 ELSE IF e2 # NoErr THEN e2 ELSE e3
  IN [err |-> err, val |-> [name |-> name, icon |-> icon, color |-> color]]

withName(m, newName) == ListMetadata(newName, m.icon, m.color)
withIcon(m, newIcon) == ListMetadata(m.name, newIcon, m.color)
withColor(m, newColor) == ListMetadata(m.name, m.icon, newColor)

----------------------------------------------------------------------------
(* DomainEvent and TripleEvent.  The payload of a List event and of        *)
(* ItemCreated is the aggregate object itself (a reference): SelfRef.      *)

SelfRef == [tag |-> "self"]

createDomainEvent(type, data, aggregateId, sequenceNo, now) ==
  [type |-> type, data |-> data, timestamp |-> now,
   aggregateId |-> aggregateId, sequenceNo |-> sequenceNo]

PredCONTAINS == "contains"
PredORDERED_BY == "ordered_by"
PredBELONGS_TO == "belongs_to"
PredTAGGED_WITH == "tagged_with"
PredRELATED_TO == "related_to"

createTripleEvent(subjectId, predicate, objectId, aggregateId, sequenceNo, now) ==
  [type |-> "TripleEvent",
   data |-> [tag |-> "triple", subject |-> subjectId, predicate |-> predicate, object |-> objectId],
   timestamp |-> now, aggregateId |-> aggregateId, sequenceNo |-> sequenceNo]

createListCreatedEvent(aggregateId, sequenceNo, now) ==
  createDomainEvent("ListCreated", SelfRef, aggregateId, sequenceNo, now)
createListUpdatedEvent(aggregateId, sequenceNo, now) ==
  createDomainEvent("ListUpdated", SelfRef, aggregateId, sequenceNo, now)
createListDeletedEvent(aggregateId, sequenceNo, now) ==
  createDomainEvent("ListDeleted", SelfRef, aggregateId, sequenceNo, now)

----------------------------------------------------------------------------
(* Entity / AggregateRoot.  An operation on an aggregate yields            *)
(* [agg |-> the aggregate afterwards, err |-> the message thrown or NoErr] *)

Ret(a) == [agg |-> a, err |-> NoErr]
Throw(a, msg) == [agg |-> a, err |-> msg]

\* What reading _metadata / _deleted / the public getters of an event's
\* payload yields.  src is the object a SelfRef payload points at.  A
\* payload read back from a table is a structured clone: it keeps the
\* instance's own properties and loses the getters of the class.
PayloadMetadata(e, src) ==
  IF e.data.tag = "self" THEN src.metadata
  ELSE IF e.data.tag = "clone" THEN e.data._metadata
  ELSE [name |-> UndefStr, icon |-> UndefStr, color |-> UndefStr, _name |-> UndefStr]

\* an undefined _deleted is falsy wherever the class tests it: FALSE
PayloadDeleted(e, src) ==
  IF e.data.tag = "self" THEN (IF src.ver = 1 THEN src.deleted ELSE FALSE)
  ELSE IF e.data.tag = "clone" THEN e.data._deleted
  ELSE FALSE

\* List.apply, both versions of the class (ver 1 keeps a _deleted flag,
\* ver 2 has none)
applyListCreated(l, e, src) ==
  [l EXCEPT !.metadata = PayloadMetadata(e, src),
            !.createdAt = e.timestamp,
            !.updatedAt = e.timestamp,
            !.deleted = FALSE]

applyListUpdated(l, e, src) ==
  [l EXCEPT !.metadata = PayloadMetadata(e, src),
            !.updatedAt = e.timestamp,
            !.deleted = IF l.ver = 1 THEN PayloadDeleted(e, src) ELSE @]

applyListDeleted(l, e, src) ==
  [l EXCEPT !.deleted = IF l.ver = 1 THEN PayloadDeleted(e, src) ELSE @,
            !.updatedAt = e.timestamp]

applyTripleEvent(l, e) == [l EXCEPT !.updatedAt = e.timestamp]

\* an apply whose default branch stamps the aggregate
ListApply_StampsUnknown(l, e, src) ==
  CASE e.type = "ListCreated" -> applyListCreated(l, e, src)
    [] e.type = "ListUpdated" -> applyListUpdated(l, e, src)
    [] e.type = "ListDeleted" -> applyListDeleted(l, e, src)
    [] e.type = "TripleEvent" -> applyTripleEvent(l, e)
    [] OTHER -> [l EXCEPT !.updatedAt = e.timestamp]

ListApply(l, e, src) ==
  CASE e.type = "ListCreated" -> applyListCreated(l, e, src)
    [] e.type = "ListUpdated" -> applyListUpdated(l, e, src)
    [] e.type = "ListDeleted" -> applyListDeleted(l, e, src)
    [] e.type = "TripleEvent" -> applyTripleEvent(l, e)
    [] OTHER -> l

\* Item does not override apply: Entity.apply, which does nothing
EntityApply(a, e) == a

Apply(a, e, src) == IF a.kind = "List" THEN ListApply(a, e, src) ELSE EntityApply(a, e)

\* applyEvent without the increment of sequenceNo
applyEvent_NoIncrement(a, e) ==
  [Apply(a, e, a) EXCEPT !.uncommittedEvents = Append(@, e)]

\* Entity.applyEvent: the payload of a live event points at the aggregate itself
applyEvent(a, e) ==
  LET a1 == [a EXCEPT !.sequenceNo = @ + 1]
      a2 == Apply(a1, e, a1)
  IN [a2 EXCEPT !.uncommittedEvents = Append(@, e)]

\* Entity.hydrate; src is the object the SelfRef payloads of events point at
RECURSIVE Replay(_, _, _)
Replay(a, events, src) ==
  IF events = << >> THEN a
  ELSE LET e == Head(events)
           a1 == Apply(a, e, src)
           a2 == [a1 EXCEPT !.events = Append(@, e), !.sequenceNo = e.sequenceNo]
       IN Replay(a2, Tail(events), src)

\* hydrate that leaves the uncommitted buffer as it finds it
hydrate_KeepsBuffer(a, events, src) ==
  Replay([a EXCEPT !.events = << >>, !.sequenceNo = 0], events, src)

hydrate(a, events, src) ==
  Replay([a EXCEPT !.events = << >>, !.uncommittedEvents = << >>, !.sequenceNo = 0],
         events, src)

\* AggregateRoot.hydrateAggregate: the root is replayed and the children are dropped
hydrateAggregate(a, events, src) ==
  hydrate([a EXCEPT !.childEntities = << >>], events, src)

markEventsAsCommitted(a) ==
  [a EXCEPT !.events = @ \o a.uncommittedEvents, !.uncommittedEvents = << >>]

\* the root's buffer committed, the children's left alone
markAllEventsAsCommitted_RootOnly(a) == markEventsAsCommitted(a)

markAllEventsAsCommitted(a) ==
  [markEventsAsCommitted(a) EXCEPT
     !.childEntities = [i \in DOMAIN @ |-> markEventsAsCommitted(@[i])]]

\* new Entity(id), and an aggregate root that adds nothing to AggregateRoot
NewEntity(id) ==
  [kind |-> "Entity", id |-> id, sequenceNo |-> 0, events |-> << >>,
   uncommittedEvents |-> << >>]

NewRoot(id) ==
  [kind |-> "Root", id |-> id, sequenceNo |-> 0, events |-> << >>,
   uncommittedEvents |-> << >>, childEntities |-> << >>]

addChildEntity(a, childEntity) == [a EXCEPT !.childEntities = Append(@, childEntity)]

\* indexOf and splice: the first occurrence goes
removeChildEntity(a, childId) ==
  LET at == {i \in DOMAIN a.childEntities : a.childEntities[i].id = childId}
  IN IF at = {} THEN a
     ELSE LET index == CHOOSE i \in at : \A j \in at : i <= j
          IN [a EXCEPT !.childEntities =
                SubSeq(@, 1, index - 1) \o SubSeq(@, index + 1, Len(@))]

\* allEvents.push(...childEntity.uncommittedEvents), child after child
RECURSIVE ChildEvents(_)
ChildEvents(children) ==
  IF children = << >> THEN << >>
  ELSE Head(children).uncommittedEvents \o ChildEvents(Tail(children))

\* Array.prototype.sort((a, b) => a.sequenceNo - b.sequenceNo): stable
RECURSIVE InsertBySeq(_, _)
InsertBySeq(e, s) ==
  IF s = << >> THEN <<e>>
  ELSE IF e.sequenceNo < Head(s).sequenceNo THEN <<e>> \o s
  ELSE <<Head(s)>> \o InsertBySeq(e, Tail(s))

RECURSIVE SortBySeq(_)
SortBySeq(s) ==
  IF s = << >> THEN s
  ELSE InsertBySeq(s[Len(s)], SortBySeq(SubSeq(s, 1, Len(s) - 1)))

\* the root's events without the children's
getAllUncommittedEvents_RootOnly(a) == SortBySeq(a.uncommittedEvents)

getAllUncommittedEvents(a) ==
  SortBySeq(a.uncommittedEvents \o ChildEvents(a.childEntities))

----------------------------------------------------------------------------
(* List aggregate *)

\* new List(name, icon, color, id)
NewList(ver, name, icon, color, id, now) ==
  LET m == ListMetadata(name, icon, color)
  IN [err |-> m.err,
      agg |-> [kind |-> "List", ver |-> ver, id |-> id, metadata |-> m.val,
               createdAt |-> now, updatedAt |-> now, deleted |-> FALSE,
               sequenceNo |-> 0, events |-> << >>, uncommittedEvents |-> << >>,
   childEntities |-> << >>]]

ListCreate(ver, name, icon, color, id, now) ==
  LET c == NewList(ver, name, icon, color, id, now)
  IN IF c.err # NoErr THEN Throw(NoAgg, c.err)
     ELSE Ret(applyEvent(c.agg, createListCreatedEvent(id, c.agg.sequenceNo + 1, now)))

ListFromEvents(ver, id, events, src, now) ==
  LET c == NewList(ver, EmptyStr, EmptyStr, EmptyStr, id, now)
  IN IF c.err # NoErr THEN Throw(NoAgg, c.err)
     ELSE Ret(hydrateAggregate(c.agg, events, src))

\* the tail with updatedAt assigned before the withX call is looked at
ListSetMetadata_TouchesFirst(l, m, now) ==
  IF m.err # NoErr THEN Throw([l EXCEPT !.updatedAt = now], m.err)
  ELSE LET l1 == [l EXCEPT !.metadata = m.val, !.updatedAt = now]
       IN Ret(applyEvent(l1, createListUpdatedEvent(l.id, l.sequenceNo + 1, now)))

\* the common tail of rename / changeIcon / changeColor: m is the result of
\* the withX call
ListSetMetadata(l, m, now) ==
  IF m.err # NoErr THEN Throw(l, m.err)
  ELSE LET l1 == [l EXCEPT !.metadata = m.val, !.updatedAt = now]
       IN Ret(applyEvent(l1, createListUpdatedEvent(l.id, l.sequenceNo + 1, now)))

\* a _metadata restored from a stored payload is a plain object: it has no
\* name / icon / color getters and no withX methods
IsValueObject(m) == "_name" \notin DOMAIN m
NotAFunction == "TypeError: this._metadata.withX is not a function"

\* rename without the unchanged-name short circuit
ListRename_NoShortCircuit(l, newName, now) ==
  IF l.ver = 1 /\ l.deleted THEN Throw(l, "Cannot rename a deleted list")
  ELSE IF ~IsValueObject(l.metadata) THEN Throw(l, NotAFunction)
  ELSE ListSetMetadata(l, withName(l.metadata, newName), now)

ListRename(l, newName, now) ==
  IF l.ver = 1 /\ l.deleted THEN Throw(l, "Cannot rename a deleted list")
  ELSE IF l.metadata.name = newName THEN Ret(l)
  ELSE IF ~IsValueObject(l.metadata) THEN Throw(l, NotAFunction)
  ELSE ListSetMetadata(l, withName(l.metadata, newName), now)

ListChangeIcon(l, newIcon, now) ==
  IF l.ver = 1 /\ l.deleted THEN Throw(l, "Cannot change icon of a deleted list")
  ELSE IF l.metadata.icon = newIcon THEN Ret(l)
  ELSE IF ~IsValueObject(l.metadata) THEN Throw(l, NotAFunction)
  ELSE ListSetMetadata(l, withIcon(l.metadata, newIcon), now)

ListChangeColor(l, newColor, now) ==
  IF l.ver = 1 /\ l.deleted THEN Throw(l, "Cannot change color of a deleted list")
  ELSE IF l.metadata.color = newColor THEN Ret(l)
  ELSE IF ~IsValueObject(l.metadata) THEN Throw(l, NotAFunction)
  ELSE ListSetMetadata(l, withColor(l.metadata, newColor), now)

ListDelete(l, now) ==
  IF l.ver = 1 /\ l.deleted THEN Ret(l)
  ELSE LET l1 == [l EXCEPT !.deleted = IF l.ver = 1 THEN TRUE ELSE @, !.updatedAt = now]
       IN Ret(applyEvent(l1, createListDeletedEvent(l.id, l.sequenceNo + 1, now)))

ListAddItem(l, itemId, now) ==
  IF l.ver = 1 /\ l.deleted THEN Throw(l, "Cannot add items to a deleted list")
  ELSE Ret(applyEvent(l, createTripleEvent(l.id, PredCONTAINS, itemId, l.id, l.sequenceNo + 1, now)))

\* a removeItem that emits no event
ListRemoveItem_EmitsNothing(l, itemId, now) ==
  IF l.ver = 1 /\ l.deleted THEN Throw(l, "Cannot remove items from a deleted list")
  ELSE Ret(l)

ListRemoveItem(l, itemId, now) ==
  IF l.ver = 1 /\ l.deleted THEN Throw(l, "Cannot remove items from a deleted list")
  ELSE Ret(applyEvent(l, createTripleEvent(l.id, PredCONTAINS, itemId, l.id, l.sequenceNo + 1, now)))

ListReorderItem(l, itemId, newOrder, now) ==
  IF l.ver = 1 /\ l.deleted THEN Throw(l, "Cannot reorder items in a deleted list")
  ELSE Ret(applyEvent(l, createTripleEvent(l.id, PredORDERED_BY, itemId, l.id, l.sequenceNo + 1, now)))

\* What a caller gets from list.itemCount, list.hasItem(id) and
\* list.getItemReferences(): the class defines none of the three, in either
\* version, so the property read yields undefined and the two calls throw
JsUndefined == [undefined |-> TRUE]
JsTypeError(what) == [threw |-> "TypeError: " \o what \o " is not a function"]
itemCount(l) == JsUndefined
hasItem(l, itemId) == JsTypeError("list.hasItem")
getItemReferences(l) == JsTypeError("list.getItemReferences")

----------------------------------------------------------------------------
(* Item aggregate *)

NewItem(id, name, url, type, jsonLd, image, description, now) ==
  [kind |-> "Item", id |-> id, name |-> name, url |-> url, image |-> image,
   description |-> description, type |-> type, jsonLd |-> jsonLd,
   createdAt |-> now, updatedAt |-> now, deleted |-> FALSE,
   sequenceNo |-> 0, events |-> << >>, uncommittedEvents |-> << >>,
   childEntities |-> << >>]

ItemCreate(id, name, url, type, jsonLd, image, description, now) ==
  LET i == NewItem(id, name, url, type, jsonLd, image, description, now)
  IN Ret(applyEvent(i, createDomainEvent("ItemCreated", SelfRef, i.id, i.sequenceNo + 1, now)))

ItemFromEvents(id, events, src, now) ==
  Ret(hydrateAggregate(NewItem(id, "", "", "", JsonEmpty, Undef, Undef, now), events, src))

toSnapshot(i) ==
  [tag |-> "snap", id |-> i.id, name |-> i.name, url |-> i.url, image |-> i.image,
   description |-> i.description, type |-> i.type, jsonLd |-> i.jsonLd,
   createdAt |-> i.createdAt, updatedAt |-> i.updatedAt, deleted |-> i.deleted]

\* updates = [name, image, description], Undef for a field that is not given
ItemUpdateMetadata(i, updates, now) ==
  IF i.deleted THEN Throw(i, "Cannot update a deleted item")
  ELSE
    LET chName == updates.name # Undef /\ updates.name # i.name
        chImage == updates.image # Undef /\ updates.image # i.image
        chDesc == updates.description # Undef /\ updates.description # i.description
        i1 == [i EXCEPT !.name = IF chName THEN updates.name ELSE @,
                        !.image = IF chImage THEN updates.image ELSE @,
                        !.description = IF chDesc THEN updates.description ELSE @]
        i2 == [i1 EXCEPT !.updatedAt = now]
    IN IF chName \/ chImage \/ chDesc
         THEN Ret(applyEvent(i2, createDomainEvent("ItemUpdated", toSnapshot(i2), i.id, i.sequenceNo + 1, now)))
         ELSE Ret(i1)

\* JSON.stringify of a payload, a sequence of <<key, value>> pairs: the same
\* pairs in the same order
JsonStringify(j) == j

ItemUpdateJsonLd(i, jsonLd, now) ==
  IF i.deleted THEN Throw(i, "Cannot update a deleted item")
  ELSE IF JsonStringify(jsonLd) = JsonStringify(i.jsonLd) THEN Ret(i)
  ELSE LET i1 == [i EXCEPT !.jsonLd = jsonLd, !.updatedAt = now]
       IN Ret(applyEvent(i1, createDomainEvent("ItemUpdated", toSnapshot(i1), i.id, i.sequenceNo + 1, now)))

ItemDelete(i, now) ==
  IF i.deleted THEN Ret(i)
  ELSE LET i1 == [i EXCEPT !.deleted = TRUE, !.updatedAt = now]
       IN Ret(applyEvent(i1, createDomainEvent("ItemDeleted", toSnapshot(i1), i.id, i.sequenceNo + 1, now)))

----------------------------------------------------------------------------
(* Database: structured clone on insert, projection handlers *)

\* Date.prototype.toISOString
toISOString(t) == <<"iso", t>>

\* what Table.add / bulkAdd stores for an event: the structured clone keeps
\* the own properties of a class instance and drops its getters
CloneData(d, src) ==
  IF d.tag # "self" THEN d
  ELSE IF src.kind = "List"
    THEN [tag |-> "clone",
          _metadata |-> [name |-> UndefStr, icon |-> UndefStr, color |-> UndefStr,
                         _name |-> src.metadata.name, _icon |-> src.metadata.icon,
                         _color |-> src.metadata.color],
          _createdAt |-> src.createdAt, _updatedAt |-> src.updatedAt,
          _deleted |-> src.deleted]
    ELSE [tag |-> "cloneItem", _id |-> src.id, _name |-> src.name, _url |-> src.url,
          _image |-> src.image, _description |-> src.description, _type |-> src.type,
          _jsonLd |-> src.jsonLd, _createdAt |-> src.createdAt,
          _updatedAt |-> src.updatedAt, _deleted |-> src.deleted]

CloneEvent(e, src) == [e EXCEPT !.data = CloneData(e.data, src)]

\* event.data as any, read through the properties the handlers use; src is
\* the aggregate a SelfRef payload points at.  defined = FALSE: the payload
\* has none of these properties, every read yields undefined
ListData(e, src) ==
  IF e.data.tag = "self"
    THEN [defined |-> TRUE,
          name |-> src.metadata.name, icon |-> src.metadata.icon, color |-> src.metadata.color,
          description |-> Undef, createdAt |-> src.createdAt, updatedAt |-> src.updatedAt]
  ELSE IF e.data.tag = "snap"
    THEN [defined |-> TRUE,
          name |-> e.data.name, icon |-> e.data.icon, color |-> e.data.color,
          description |-> Undef, createdAt |-> e.data.createdAt, updatedAt |-> e.data.updatedAt]
  ELSE [defined |-> FALSE]

ItemData(e, src) ==
  IF e.data.tag = "self"
    THEN [defined |-> TRUE,
          id |-> src.id, name |-> src.name, url |-> src.url, image |-> src.image,
          description |-> src.description, type |-> src.type, jsonLd |-> src.jsonLd,
          createdAt |-> src.createdAt, updatedAt |-> src.updatedAt]
  ELSE IF e.data.tag = "snap"
    THEN [defined |-> TRUE,
          id |-> e.data.id, name |-> e.data.name, url |-> e.data.url, image |-> e.data.image,
          description |-> e.data.description, type |-> e.data.type, jsonLd |-> e.data.jsonLd,
          createdAt |-> e.data.createdAt, updatedAt |-> e.data.updatedAt]
  ELSE [defined |-> FALSE]

\* a || b on strings
OrElse(a, b) == IF a = "" \/ a = Undef THEN b ELSE a

\* Each handler maps the table to the table afterwards.  A handler that
\* throws (toISOString of undefined, add of a key already present) is caught
\* by updateListProjection / updateItemProjection: the table is unchanged.
handleListCreated(tbl, e, src) ==
  LET d == ListData(e, src)
  IN IF ~d.defined THEN tbl
     ELSE IF tbl[e.aggregateId] # NoRow THEN tbl
     ELSE [tbl EXCEPT ![e.aggregateId] =
             [id |-> e.aggregateId, name |-> d.name, icon |-> d.icon, color |-> d.color,
              description |-> d.description,
              created_at |-> toISOString(d.createdAt),
              updated_at |-> toISOString(d.updatedAt)]]

\* a ListUpdated handler that writes the row whether or not one is there
handleListUpdated_Upserts(tbl, e, src) ==
  LET d == ListData(e, src)
  IN [tbl EXCEPT ![e.aggregateId] =
        [id |-> e.aggregateId, name |-> d.name, icon |-> d.icon, color |-> d.color,
         description |-> d.description,
         created_at |-> toISOString(d.createdAt),
         updated_at |-> toISOString(d.updatedAt)]]

handleListUpdated(tbl, e, src) ==
  LET d == ListData(e, src)
      existingProjection == tbl[e.aggregateId]
  IN IF existingProjection = NoRow THEN tbl
     ELSE IF ~d.defined THEN tbl
     ELSE [tbl EXCEPT ![e.aggregateId] =
             [existingProjection EXCEPT !.name = d.name, !.icon = d.icon, !.color = d.color,
                                        !.description = d.description,
                                        !.updated_at = toISOString(d.updatedAt)]]

\* a ListDeleted handler that leaves the row in place
handleListDeleted_KeepsRow(tbl, e) == tbl

handleListDeleted(tbl, e) == [tbl EXCEPT ![e.aggregateId] = NoRow]

updateListProjection(tbl, e, src) ==
  CASE e.type = "ListCreated" -> handleListCreated(tbl, e, src)
    [] e.type = "ListUpdated" -> handleListUpdated(tbl, e, src)
    [] e.type = "ListDeleted" -> handleListDeleted(tbl, e)
    [] OTHER -> tbl

handleItemCreated(tbl, e, src) ==
  LET d == ItemData(e, src)
  IN IF ~d.defined THEN tbl
     \* add() of a row whose key path yields no value, or whose key exists, fails
     ELSE IF d.id = Undef THEN tbl
     ELSE IF tbl[d.id] # NoRow THEN tbl
     ELSE [tbl EXCEPT ![d.id] =
             [id |-> d.id, name |-> d.name, url |-> d.url, image |-> d.image,
              description |-> d.description, type |-> d.type, jsonLd |-> d.jsonLd,
              created_at |-> toISOString(d.createdAt),
              updated_at |-> toISOString(d.updatedAt)]]

handleItemUpdated(tbl, e, src) ==
  LET d == ItemData(e, src)
      existingProjection == tbl[e.aggregateId]
  IN IF existingProjection = NoRow THEN tbl
     ELSE IF ~d.defined THEN tbl
     ELSE [tbl EXCEPT ![e.aggregateId] =
             [existingProjection EXCEPT
                !.name = OrElse(d.name, existingProjection.name),
                !.url = OrElse(d.url, existingProjection.url),
                !.image = IF d.image # Undef THEN d.image ELSE existingProjection.image,
                !.description = IF d.description # Undef THEN d.description
                                ELSE existingProjection.description,
                !.type = OrElse(d.type, existingProjection.type),
                \* itemData.jsonLd || existing: an object, also {}, is truthy
                !.jsonLd = d.jsonLd,
                !.updated_at = toISOString(d.updatedAt)]]

handleItemDeleted(tbl, e) == [tbl EXCEPT ![e.aggregateId] = NoRow]

updateItemProjection(tbl, e, src) ==
  CASE e.type = "ItemCreated" -> handleItemCreated(tbl, e, src)
    [] e.type = "ItemUpdated" -> handleItemUpdated(tbl, e, src)
    [] e.type = "ItemDeleted" -> handleItemDeleted(tbl, e)
    [] OTHER -> tbl

createTriple(tbl, subject, predicate, object, now) ==
  Append(tbl, [subject |-> subject, predicate |-> predicate, object |-> object,
               created_at |-> toISOString(now)])

deleteTriple(tbl, subject, predicate, object) ==
  SelectSeq(tbl, LAMBDA t : ~(t.subject = subject /\ t.predicate = predicate /\ t.object = object))

handleTripleEvent(tbl, e, now) ==
  IF e.type = "TripleEvent"
    THEN LET tripleData == e.data
             predicate == tripleData.predicate
         IN IF predicate = "CONTAINS" \/ predicate = "belongs_to"
              THEN createTriple(tbl, tripleData.subject, predicate, tripleData.object, now)
            ELSE IF predicate = "ORDERED_BY"
              THEN createTriple(tbl, tripleData.subject, predicate, tripleData.object, now)
            ELSE tbl
    ELSE tbl

----------------------------------------------------------------------------
(* Event store.  db is the record of the five tables. *)

DB ==
  [listEvents |-> listEvents, itemEvents |-> itemEvents,
   listProjections |-> listProjections, itemProjections |-> itemProjections,
   triples |-> triples]

\* event.type.startsWith('List') / startsWith('Item') over the type names
\* that occur
\* event types no aggregate and no projection handler has a case for; their
\* names start with 'List' and 'Item'
UnknownListType == "ListArchived"
UnknownItemType == "ItemMoved"

\* the type names in use that start with 'List' and with 'Item'
ListTypes == {"ListCreated", "ListUpdated", "ListDeleted", UnknownListType}
ItemTypes == {"ItemCreated", "ItemUpdated", "ItemDeleted", UnknownItemType}
StartsWithList(type) == type \in ListTypes
StartsWithItem(type) == type \in ItemTypes

RECURSIVE ProjectLists(_, _, _)
ProjectLists(tbl, events, src) ==
  IF events = << >> THEN tbl
  ELSE ProjectLists(updateListProjection(tbl, Head(events), src), Tail(events), src)

RECURSIVE ProjectItems(_, _, _)
ProjectItems(tbl, events, src) ==
  IF events = << >> THEN tbl
  ELSE ProjectItems(updateItemProjection(tbl, Head(events), src), Tail(events), src)

RECURSIVE ProjectTriples(_, _, _)
ProjectTriples(tbl, events, now) ==
  IF events = << >> THEN tbl
  ELSE ProjectTriples(handleTripleEvent(tbl, Head(events), now), Tail(events), now)

CloneAll(events, src) == [i \in 1..Len(events) |-> CloneEvent(events[i], src)]

appendEvent(db, e, src, now) ==
  IF StartsWithList(e.type)
    THEN [db EXCEPT !.listEvents = Append(@, CloneEvent(e, src)),
                    !.listProjections = updateListProjection(@, e, src)]
  ELSE IF StartsWithItem(e.type)
    THEN [db EXCEPT !.itemEvents = Append(@, CloneEvent(e, src)),
                    !.itemProjections = updateItemProjection(@, e, src)]
  ELSE IF e.type = "TripleEvent"
    THEN [db EXCEPT !.listEvents = Append(@, CloneEvent(e, src)),
                    !.triples = handleTripleEvent(@, e, now)]
  ELSE db

\* appendEvents that handles the List* events and stops
appendEvents_ListsOnly(db, newEvents, src, now) ==
  LET listEvs == SelectSeq(newEvents, LAMBDA e : StartsWithList(e.type))
  IN IF Len(listEvs) > 0
       THEN [db EXCEPT !.listEvents = @ \o CloneAll(listEvs, src),
                       !.listProjections = ProjectLists(@, listEvs, src)]
     ELSE db

appendEvents(db, newEvents, src, now) ==
  LET listEvs == SelectSeq(newEvents, LAMBDA e : StartsWithList(e.type))
      itemEvs == SelectSeq(newEvents, LAMBDA e : ~StartsWithList(e.type) /\ StartsWithItem(e.type))
      tripleEvs == SelectSeq(newEvents, LAMBDA e : ~StartsWithList(e.type) /\ ~StartsWithItem(e.type)
                                                   /\ e.type = "TripleEvent")
      db1 == IF Len(listEvs) > 0
               THEN [db EXCEPT !.listEvents = @ \o CloneAll(listEvs, src),
                               !.listProjections = ProjectLists(@, listEvs, src)]
               ELSE db
      db2 == IF Len(itemEvs) > 0
               THEN [db1 EXCEPT !.itemEvents = @ \o CloneAll(itemEvs, src),
                                !.itemProjections = ProjectItems(@, itemEvs, src)]
               ELSE db1
      db3 == IF Len(tripleEvs) > 0
               THEN [db2 EXCEPT !.listEvents = @ \o CloneAll(tripleEvs, src),
                                !.triples = ProjectTriples(@, tripleEvs, now)]
               ELSE db2
  IN db3

\* the events of the id in table order, the sort left out
getEventsByAggregateId_Unsorted(db, aggregateId) ==
  SelectSeq(db.listEvents, LAMBDA e : e.aggregateId = aggregateId)
    \o SelectSeq(db.itemEvents, LAMBDA e : e.aggregateId = aggregateId)

getEventsByAggregateId(db, aggregateId) ==
  SortBySeq(SelectSeq(db.listEvents, LAMBDA e : e.aggregateId = aggregateId)
            \o SelectSeq(db.itemEvents, LAMBDA e : e.aggregateId = aggregateId))

clearEvents(db) == [db EXCEPT !.listEvents = << >>, !.itemEvents = << >>]

getEventCount(db) == Len(db.listEvents) + Len(db.itemEvents)

----------------------------------------------------------------------------
(* ListService.  A command yields [db |-> the tables afterwards, ret |-> its *)
(* result]; a failure inside the try block yields the failure value.         *)

Null == [kind |-> "null"]
Has(updates, field) == field \in DOMAIN updates
Result(db, ret) == [db |-> db, ret |-> ret]

createList(db, ver, name, icon, color, id, now) ==
  LET c == ListCreate(ver, name, icon, color, id, now)
  IN IF c.err # NoErr THEN Result(db, Null)
     ELSE LET uncommittedEvents == getAllUncommittedEvents(c.agg)
              db1 == appendEvents(db, uncommittedEvents, c.agg, now)
          IN Result(db1, markAllEventsAsCommitted(c.agg))

loadListFromEvents(db, ver, id, now) ==
  LET events == getEventsByAggregateId(db, id)
  IN IF Len(events) = 0 THEN Null
     ELSE LET r == ListFromEvents(ver, id, events, NoAgg, now)
          IN IF r.err # NoErr THEN Null ELSE r.agg

\* updates: a record with some of the fields name, icon, color.  Each of
\* the three steps of updateList takes the outcome so far: a step that threw
\* ends the try block
renameIfChanged(r, updates, now) ==
  IF r.err # NoErr THEN r
  ELSE IF Has(updates, "name") /\ updates.name # r.agg.metadata.name
    THEN ListRename(r.agg, updates.name, now)
  ELSE r

changeIconIfChanged(r, updates, now) ==
  IF r.err # NoErr THEN r
  ELSE IF Has(updates, "icon") /\ updates.icon # r.agg.metadata.icon
    THEN ListChangeIcon(r.agg, updates.icon, now)
  ELSE r

changeColorIfChanged(r, updates, now) ==
  IF r.err # NoErr THEN r
  ELSE IF Has(updates, "color") /\ updates.color # r.agg.metadata.color
    THEN ListChangeColor(r.agg, updates.color, now)
  ELSE r

saveUpdatedList(db, r, now) ==
  IF r.err # NoErr THEN Result(db, FALSE)
  ELSE IF Len(getAllUncommittedEvents(r.agg)) > 0
    THEN Result(appendEvents(db, getAllUncommittedEvents(r.agg), r.agg, now), TRUE)
  ELSE Result(db, TRUE)

updateList(db, ver, id, updates, now) ==
  IF loadListFromEvents(db, ver, id, now) = Null THEN Result(db, FALSE)
  ELSE saveUpdatedList(db,
         changeColorIfChanged(
           changeIconIfChanged(
             renameIfChanged(Ret(loadListFromEvents(db, ver, id, now)), updates, now),
             updates, now),
           updates, now),
         now)

deleteList(db, ver, id, now) ==
  LET list == loadListFromEvents(db, ver, id, now)
  IN IF list = Null THEN Result(db, FALSE)
     ELSE LET r == ListDelete(list, now)
          IN Result(appendEvents(db, getAllUncommittedEvents(r.agg), r.agg, now), TRUE)

----------------------------------------------------------------------------
(* ItemService.  A JSON-LD payload is a sequence of <<key, value>> pairs. *)

RECURSIVE Get(_, _)
Get(j, key) ==
  IF j = << >> THEN Undef
  ELSE IF Head(j)[1] = key THEN Head(j)[2] ELSE Get(Tail(j), key)

PageUrl == "page"   \* window.location.href

extractNormalizedFields(jsonLd) ==
  [id |-> OrElse(OrElse(Get(jsonLd, "@id"), Get(jsonLd, "url")), Get(jsonLd, "identifier")),
   name |-> OrElse(OrElse(OrElse(Get(jsonLd, "name"), Get(jsonLd, "title")),
                          Get(jsonLd, "headline")), "Untitled"),
   url |-> OrElse(OrElse(Get(jsonLd, "url"), Get(jsonLd, "@id")), PageUrl),
   image |-> Get(jsonLd, "image"),
   description |-> OrElse(OrElse(Get(jsonLd, "description"), Get(jsonLd, "summary")),
                          Get(jsonLd, "abstract")),
   type |-> OrElse(Get(jsonLd, "@type"), "Thing")]

PayloadA == << <<"url", "u1">>, <<"name", "n1">> >>
PayloadB == << <<"url", "u1">>, <<"name", "n2">> >>
PayloadC == << <<"url", "u2">>, <<"name", "n1">>, <<"@type", "Recipe">> >>
Payloads == {PayloadA, PayloadB, PayloadC}
\* a payload whose @id is the id of another page's item, and one with no
\* @id, url or identifier at all
PayloadD == << <<"@id", "u1">>, <<"url", "u2">>, <<"name", "n1">> >>
PayloadE == << <<"name", "n1">> >>
ItemPayloads == Payloads \cup {PayloadD, PayloadE}

\* primary-key order of the itemProjections table
ItemIdOrder == <<"u1", "u2">>

\* db.itemProjections.where('url').equals(url).first()
FirstByUrl(tbl, url) ==
  LET hits == SelectSeq(ItemIdOrder, LAMBDA id : tbl[id] # NoRow /\ tbl[id].url = url)
  IN IF hits = << >> THEN NoRow ELSE tbl[Head(hits)]

createItem(db, jsonLdData, now) ==
  LET f == extractNormalizedFields(jsonLdData)
      existingItem == FirstByUrl(db.itemProjections, f.url)
  IN IF existingItem # NoRow THEN Result(db, existingItem)
     ELSE LET c == ItemCreate(f.id, f.name, f.url, f.type, jsonLdData, f.image, f.description, now)
              db1 == appendEvents(db, getAllUncommittedEvents(c.agg), c.agg, now)
          \* itemProjections.get(undefined) rejects: the catch block returns null
          IN Result(db1, IF f.id = Undef THEN Null
                         ELSE IF db1.itemProjections[f.id] # NoRow
                           THEN db1.itemProjections[f.id] ELSE Null)

\* the module-level helper differs in the last url fallback
extractNormalizedFieldsDirect(jsonLd) ==
  [extractNormalizedFields(jsonLd) EXCEPT
     !.url = OrElse(OrElse(Get(jsonLd, "url"), Get(jsonLd, "@id")), "")]

\* itemEvents.bulkAdd and updateItemProjection per event, past the event store
createItemDirect(db, jsonLdData, now) ==
  LET f == extractNormalizedFieldsDirect(jsonLdData)
      existingItem == FirstByUrl(db.itemProjections, f.url)
  IN IF existingItem # NoRow THEN Result(db, existingItem)
     ELSE LET c == ItemCreate(f.id, f.name, f.url, f.type, jsonLdData, f.image, f.description, now)
              events == getAllUncommittedEvents(c.agg)
              db1 == IF Len(events) > 0
                       THEN [db EXCEPT !.itemEvents = @ \o CloneAll(events, c.agg),
                                       !.itemProjections = ProjectItems(@, events, c.agg)]
                       ELSE db
          IN Result(db1, IF f.id = Undef THEN Null
                         ELSE IF db1.itemProjections[f.id] # NoRow
                           THEN db1.itemProjections[f.id] ELSE Null)

linkItemToList(db, itemId, listId, now) ==
  Result([db EXCEPT !.triples = createTriple(@, itemId, "belongs_to", listId, now)], TRUE)

\* an unlink that reports success and deletes nothing
unlinkItemFromList_KeepsTriple(db, itemId, listId) == Result(db, TRUE)

unlinkItemFromList(db, itemId, listId) ==
  Result([db EXCEPT !.triples = deleteTriple(@, itemId, "belongs_to", listId)], TRUE)

linkItemToListDirect(db, itemId, listId, now) ==
  Result([db EXCEPT !.triples = createTriple(@, itemId, "belongs_to", listId, now)], TRUE)

getTriplesByObject(db, object) == SelectSeq(db.triples, LAMBDA t : t.object = object)

\* the item rows the triples of the list point at, one per triple, in the
\* order of the triples; a triple whose item has no row is passed over
getItemsForList(db, listId) ==
  LET found == SelectSeq(getTriplesByObject(db, listId),
                         LAMBDA t : t.predicate = "CONTAINS" \/ t.predicate = "belongs_to")
      itemIds == [i \in DOMAIN found |-> found[i].subject]
      present == SelectSeq(itemIds, LAMBDA id : id \in ItemIds /\ db.itemProjections[id] # NoRow)
  IN [i \in DOMAIN present |-> db.itemProjections[present[i]]]

\* A read of the triples table can fail: the store is missing, or the
\* database is closed.  fault is the error the read rejects with, NoErr if
\* it succeeds.
MissingStore == "NotFoundError: The specified object store was not found"
DatabaseClosed == "DatabaseClosedError: Database has been closed"
StorageFaults == {NoErr, MissingStore, DatabaseClosed}

\* error.message.includes('object store was not found')
AboutMissingStore(msg) == msg = MissingStore

\* ListicleDatabase.getTriplesByObject: logs and rethrows
getTriplesByObjectOn(db, object, fault) ==
  IF fault # NoErr THEN [err |-> fault, ret |-> Null]
  ELSE [err |-> NoErr, ret |-> [array |-> getTriplesByObject(db, object)]]

\* ListicleDatabase.getItemsForList: a missing store reads as no items, any
\* other error is rethrown
getItemsForListOn(db, listId, fault) ==
  LET triplesRead == getTriplesByObjectOn(db, listId, fault)
  IN IF triplesRead.err = NoErr
       THEN [err |-> NoErr, ret |-> [array |-> getItemsForList(db, listId)]]
     ELSE IF AboutMissingStore(triplesRead.err) THEN [err |-> NoErr, ret |-> [array |-> << >>]]
     ELSE [err |-> triplesRead.err, ret |-> Null]

\* ItemService.getItemsForList: return await db.getItemsForList(listId), no try
ItemService_getItemsForList(db, listId, fault) == getItemsForListOn(db, listId, fault)

\* updates: a record with some of the fields name, image, description, jsonLd
updateItem(db, id, updates, now) ==
  IF db.itemProjections[id] = NoRow THEN Result(db, FALSE)
  ELSE
    LET events == getEventsByAggregateId(db, id)
        item == ItemFromEvents(id, events, NoAgg, now).agg
        r1 == IF Has(updates, "name") \/ Has(updates, "image") \/ Has(updates, "description")
                THEN ItemUpdateMetadata(item,
                       [name |-> IF Has(updates, "name") THEN updates.name ELSE Undef,
                        image |-> IF Has(updates, "image") THEN updates.image ELSE Undef,
                        description |-> IF Has(updates, "description")
                                          THEN updates.description ELSE Undef], now)
                ELSE Ret(item)
        r2 == IF r1.err # NoErr THEN r1
              ELSE IF Has(updates, "jsonLd") THEN ItemUpdateJsonLd(r1.agg, updates.jsonLd, now)
              ELSE r1
    IN IF r2.err # NoErr THEN Result(db, FALSE)
       ELSE Result(appendEvents(db, getAllUncommittedEvents(r2.agg), r2.agg, now), TRUE)

deleteItem(db, id, now) ==
  IF db.itemProjections[id] = NoRow THEN Result(db, FALSE)
  ELSE
    LET events == getEventsByAggregateId(db, id)
        item == ItemFromEvents(id, events, NoAgg, now).agg
        r == ItemDelete(item, now)
    IN Result(appendEvents(db, getAllUncommittedEvents(r.agg), r.agg, now), TRUE)

----------------------------------------------------------------------------
(* State machine *)

EmptyListTable == [id \in ListIds |-> NoRow]
EmptyItemTable == [id \in ItemIds |-> NoRow]

\* last.members: the item references the calls made on the held list amount
\* to, in the order added (what getItemReferences is expected to answer); it
\* records the calls, the List class keeps no such field
Init ==
  /\ agg = NoAgg
  /\ last = [op |-> "none", arg |-> "none", pre |-> NoAgg, preMembers |-> << >>,
             err |-> NoErr, ret |-> NoAgg, members |-> << >>]
  /\ clock = 0
  /\ listEvents = << >>
  /\ itemEvents = << >>
  /\ listProjections = EmptyListTable
  /\ itemProjections = EmptyItemTable
  /\ triples = << >>
  /\ written = 0
  /\ pc = "idle"

\* new Date(): every call reads a later instant than the call before it,
\* until the clock reaches MaxClock
Now == IF clock < MaxClock THEN clock + 1 ELSE clock

(* Calls on the aggregate instance the caller holds.  r is the outcome of   *)
(* the call (r.agg = NoAgg: a factory threw, the caller keeps what it has), *)
(* ret a value the call returns, members the items of the list afterwards.  *)
AggCall(op, arg, r, ret, members) ==
  /\ r.agg.kind # "none" => r.agg.sequenceNo <= MaxSeq
  /\ agg' = IF r.agg.kind = "none" THEN agg ELSE r.agg
  /\ last' = [op |-> op, arg |-> arg, pre |-> agg, preMembers |-> last.members,
              err |-> r.err, ret |-> ret,
              members |-> IF r.err = NoErr THEN members ELSE last.members]
  /\ clock' = Now
  /\ UNCHANGED <<storeVars, written, pc>>

MemberIds(m) == {m[i].itemId : i \in DOMAIN m}
MembersAdd(m, x) ==
  IF x \in MemberIds(m) THEN m ELSE Append(m, [itemId |-> x, order |-> Len(m)])
MembersRemove(m, x) == SelectSeq(m, LAMBDA r : r.itemId # x)
MembersReorder(m, x, o) ==
  [i \in DOMAIN m |-> IF m[i].itemId = x THEN [m[i] EXCEPT !.order = o] ELSE m[i]]
OrderOf(m, x) == m[CHOOSE i \in DOMAIN m : m[i].itemId = x].order

IsList == agg.kind = "List"
IsItem == agg.kind = "Item"

\* The caller builds one instance and then works on it.  generateId yields
\* an id out of HeldListIds.
DoListCreate ==
  /\ agg = NoAgg
  /\ \E ver \in {1, 2}, name \in NameInputs, id \in HeldListIds :
       AggCall("List.create", [name |-> name, icon |-> IconA, color |-> Red],
               ListCreate(ver, name, IconA, Red, id, Now), NoAgg, << >>)

DoRename ==
  /\ IsList
  /\ \E n \in NameInputs :
       AggCall("rename", n, ListRename(agg, n, Now), NoAgg, last.members)

DoChangeIcon ==
  /\ IsList
  /\ \E i \in IconInputs :
       AggCall("changeIcon", i, ListChangeIcon(agg, i, Now), NoAgg, last.members)

DoChangeColor ==
  /\ IsList
  /\ \E c \in ColorInputs :
       AggCall("changeColor", c, ListChangeColor(agg, c, Now), NoAgg, last.members)

DoListDelete ==
  /\ IsList
  /\ AggCall("delete", "none", ListDelete(agg, Now), NoAgg, last.members)

DoAddItem ==
  /\ IsList
  /\ \E x \in HeldItemIds :
       AggCall("addItem", x, ListAddItem(agg, x, Now), NoAgg, MembersAdd(last.members, x))

DoRemoveItem ==
  /\ IsList
  /\ \E x \in HeldItemIds :
       AggCall("removeItem", x, ListRemoveItem(agg, x, Now), NoAgg, MembersRemove(last.members, x))

DoReorderItem ==
  /\ IsList
  /\ \E x \in HeldItemIds, o \in Orders :
       AggCall("reorderItem", [item |-> x, order |-> o], ListReorderItem(agg, x, o, Now),
               NoAgg, MembersReorder(last.members, x, o))

DoItemCreate ==
  /\ agg = NoAgg
  /\ \E p \in Payloads :
       LET f == extractNormalizedFields(p)
       IN AggCall("Item.create", p,
                  ItemCreate(f.id, f.name, f.url, f.type, p, f.image, f.description, Now),
                  NoAgg, << >>)

MetadataUpdates ==
  { [name |-> n, image |-> Undef, description |-> Undef] : n \in ItemNames }
    \cup { [name |-> Undef, image |-> "img", description |-> d] : d \in {Undef, "d1"} }

DoUpdateMetadata ==
  /\ IsItem
  /\ \E u \in MetadataUpdates :
       AggCall("updateMetadata", u, ItemUpdateMetadata(agg, u, Now), NoAgg, << >>)

DoUpdateJsonLd ==
  /\ IsItem
  /\ \E j \in Payloads :
       AggCall("updateJsonLd", j, ItemUpdateJsonLd(agg, j, Now), NoAgg, << >>)

DoItemDelete ==
  /\ IsItem
  /\ AggCall("delete", "none", ItemDelete(agg, Now), NoAgg, << >>)

DoMarkCommitted ==
  /\ agg # NoAgg
  /\ AggCall("markAllEventsAsCommitted", "none", Ret(markAllEventsAsCommitted(agg)),
             NoAgg, last.members)

\* fromEvents(id, events) with the events the instance has emitted, in order
EmittedEvents(a) == a.events \o a.uncommittedEvents

DoFromEvents ==
  /\ agg # NoAgg
  /\ LET r == IF IsList THEN ListFromEvents(agg.ver, agg.id, EmittedEvents(agg), agg, Now)
              ELSE ItemFromEvents(agg.id, EmittedEvents(agg), agg, Now)
     IN AggCall("fromEvents", "none", [agg |-> agg, err |-> r.err], r.agg, last.members)

NextAgg ==
  \/ DoListCreate
  \/ DoRename
  \/ DoChangeIcon
  \/ DoChangeColor
  \/ DoListDelete
  \/ DoAddItem
  \/ DoRemoveItem
  \/ DoReorderItem
  \/ DoItemCreate
  \/ DoUpdateMetadata
  \/ DoUpdateJsonLd
  \/ DoItemDelete
  \/ DoMarkCommitted
  \/ DoFromEvents

SpecAgg == Init /\ [][NextAgg]_vars

----------------------------------------------------------------------------
(* Calls on the event store and on the services.  r is the outcome of the  *)
(* call: the tables afterwards and the value returned.  The store writes   *)
(* at most MaxLog events in a behaviour.                                   *)

StoreCallWithin(limit, op, arg, r) ==
  LET grown == getEventCount(r.db) - getEventCount(DB)
      n == IF grown > 0 THEN grown ELSE 0
  IN /\ written + n <= limit
     /\ listEvents' = r.db.listEvents
     /\ itemEvents' = r.db.itemEvents
     /\ listProjections' = r.db.listProjections
     /\ itemProjections' = r.db.itemProjections
     /\ triples' = r.db.triples
     /\ written' = written + n
     /\ last' = [op |-> op, arg |-> arg, pre |-> DB, preMembers |-> << >>,
                 err |-> NoErr, ret |-> r.ret, members |-> << >>]
     /\ clock' = Now
     /\ UNCHANGED <<agg, pc>>

StoreCall(op, arg, r) == StoreCallWithin(MaxLog, op, arg, r)

\* Events a caller of the store hands in: plain snapshots of a list or an
\* item taken now, numbered after the events the log holds for the aggregate
NextSeqNo(id) == Len(getEventsByAggregateId(DB, id)) + 1

ListSnapshot(name, now) ==
  [tag |-> "snap", name |-> name, icon |-> IconA, color |-> Red,
   createdAt |-> now, updatedAt |-> now]

ItemSnapshot(id, name, now) ==
  [tag |-> "snap", id |-> id, name |-> name, url |-> id, image |-> Undef,
   description |-> Undef, type |-> "Thing", jsonLd |-> JsonEmpty,
   createdAt |-> now, updatedAt |-> now]

ListEventsIn(now) ==
  {createDomainEvent(t[1], ListSnapshot(t[2], now), id, NextSeqNo(id), now) :
     t \in {<<"ListCreated", NameA>>, <<"ListCreated", NameB>>,
            <<"ListUpdated", NameB>>, <<"ListDeleted", NameA>>},
     id \in CallerListIds}

ItemEventsIn(now) ==
  {createDomainEvent(type, ItemSnapshot(id, "n1", now), id, NextSeqNo(id), now) :
     type \in {"ItemCreated", "ItemDeleted"}, id \in CallerItemIds}

TripleEventsIn(now) ==
  {createTripleEvent("L1", p, "u1", "L1", NextSeqNo("L1"), now) :
     p \in {PredCONTAINS, PredBELONGS_TO}}

EventsIn(now) == ListEventsIn(now) \cup ItemEventsIn(now) \cup TripleEventsIn(now)

\* batches of two events of different kinds, in both orders
BatchesIn(now) ==
  LET lc == createDomainEvent("ListCreated", ListSnapshot(NameA, now), "L2", NextSeqNo("L2"), now)
      ld == createDomainEvent("ListDeleted", ListSnapshot(NameA, now), "L2", NextSeqNo("L2") + 1, now)
      ic == createDomainEvent("ItemCreated", ItemSnapshot("u2", "n1", now), "u2", NextSeqNo("u2"), now)
      tr == createTripleEvent("L2", PredBELONGS_TO, "u2", "L2", NextSeqNo("L2") + 1, now)
  IN {<<lc, ld>>, <<ic, lc>>, <<lc, tr>>, <<tr, ic>>}

DoAppendEvent ==
  \E e \in EventsIn(Now) :
    StoreCall("appendEvent", e, Result(appendEvent(DB, e, NoAgg, Now), Null))

DoAppendEvents ==
  \E b \in BatchesIn(Now) :
    StoreCall("appendEvents", b, Result(appendEvents(DB, b, NoAgg, Now), Null))

DoClearEvents ==
  StoreCall("clearEvents", Null, Result(clearEvents(DB), Null))

\* generateId yields an id the database has not seen
FreshListIds == {id \in ListIds : listProjections[id] = NoRow
                                  /\ getEventsByAggregateId(DB, id) = << >>}

DoCreateList ==
  \E ver \in {1, 2}, name \in {NameA, EmptyStr}, id \in FreshListIds :
    /\ \A other \in FreshListIds : id = "L1" \/ other # "L1"
    /\ StoreCall("createList", [name |-> name, id |-> id],
                 createList(DB, ver, name, IconA, Red, id, Now))

DoUpdateList ==
  \E ver \in {1, 2}, id \in ListIds :
    StoreCall("updateList", [id |-> id, name |-> NameB],
              updateList(DB, ver, id, [name |-> NameB], Now))

DoDeleteList ==
  \E ver \in {1, 2}, id \in ListIds :
    StoreCall("deleteList", [id |-> id], deleteList(DB, ver, id, Now))

\* the projection tables answer every write with a rejection, or work
WriteFailed == "projection write failed"
WriteFaults == {NoErr, WriteFailed}

\* appendEvents while the projection tables reject their writes: bulkAdd to
\* the logs succeeds, each handler's rejection is caught inside
\* updateListProjection, updateItemProjection and handleTripleEvent
appendEventsOn(db, newEvents, src, now, fault) ==
  IF fault = NoErr THEN appendEvents(db, newEvents, src, now)
  ELSE [appendEvents(db, newEvents, src, now) EXCEPT
          !.listProjections = db.listProjections,
          !.itemProjections = db.itemProjections,
          !.triples = db.triples]

createItemOn(db, jsonLdData, now, fault) ==
  LET f == extractNormalizedFields(jsonLdData)
      existingItem == FirstByUrl(db.itemProjections, f.url)
  IN IF existingItem # NoRow THEN Result(db, existingItem)
     ELSE LET c == ItemCreate(f.id, f.name, f.url, f.type, jsonLdData, f.image, f.description, now)
              db1 == appendEventsOn(db, getAllUncommittedEvents(c.agg), c.agg, now, fault)
          IN Result(db1, IF f.id = Undef THEN Null
                         ELSE IF db1.itemProjections[f.id] # NoRow
                           THEN db1.itemProjections[f.id] ELSE Null)

deleteItemOn(db, id, now, fault) ==
  IF db.itemProjections[id] = NoRow THEN Result(db, FALSE)
  ELSE
    LET events == getEventsByAggregateId(db, id)
        item == ItemFromEvents(id, events, NoAgg, now).agg
        r == ItemDelete(item, now)
    IN Result(appendEventsOn(db, getAllUncommittedEvents(r.agg), r.agg, now, fault), TRUE)

DoCreateItem ==
  \E p \in Payloads :
    StoreCall("createItem", p, createItem(DB, p, Now))

DoUpdateItem ==
  \E id \in ItemIds, updates \in {[name |-> "n2"], [jsonLd |-> JsonB]} :
    StoreCall("updateItem", [id |-> id, updates |-> updates],
              updateItem(DB, id, updates, Now))

DoDeleteItem ==
  \E id \in ItemIds :
    StoreCall("deleteItem", [id |-> id], deleteItem(DB, id, Now))

Next ==
  \/ DoAppendEvent
  \/ DoAppendEvents
  \/ DoClearEvents
  \/ DoCreateList
  \/ DoUpdateList
  \/ DoDeleteList
  \/ DoCreateItem
  \/ DoUpdateItem
  \/ DoDeleteItem

Spec == Init /\ [][Next]_vars

----------------------------------------------------------------------------------------------------------------------------------------
(* Item creation through the ItemService and through the background        *)
(* helper, with payloads of every shape.  At most MaxItemLog events are     *)
(* written.                                                                 *)

DoCreateItemAny ==
  \E p \in ItemPayloads :
    StoreCallWithin(MaxItemLog, "createItem", p, createItem(DB, p, Now))

DoCreateItemDirect ==
  \E p \in ItemPayloads :
    StoreCallWithin(MaxItemLog, "createItemDirect", p, createItemDirect(DB, p, Now))

DoDeleteAnyItem ==
  \E id \in ItemIds :
    StoreCallWithin(MaxItemLog, "deleteItem", [id |-> id], deleteItem(DB, id, Now))

\* updateItem with the value the row of the item holds for one field
StoredValuesOf(row) == {[name |-> row.name], [jsonLd |-> row.jsonLd]}

DoUpdateItemSame ==
  \E id \in ItemIds :
    /\ itemProjections[id] # NoRow
    /\ \E updates \in StoredValuesOf(itemProjections[id]) :
         StoreCallWithin(MaxItemLog, "updateItem", [id |-> id, updates |-> updates],
                         updateItem(DB, id, updates, Now))

DoCreateItemOn ==
  \E p \in Payloads, fault \in WriteFaults :
    StoreCallWithin(MaxItemLog, "createItem", [payload |-> p, fault |-> fault],
                    createItemOn(DB, p, Now, fault))

DoDeleteItemOn ==
  \E id \in ItemIds, fault \in WriteFaults :
    StoreCallWithin(MaxItemLog, "deleteItem", [id |-> id, fault |-> fault],
                    deleteItemOn(DB, id, Now, fault))

NextFaults ==
  \/ DoCreateItemOn
  \/ DoDeleteItemOn

SpecFaults == Init /\ [][NextFaults]_vars

NextItems ==
  \/ DoUpdateItemSame
  \/ DoCreateItemAny
  \/ DoCreateItemDirect
  \/ DoDeleteAnyItem

SpecItems == Init /\ [][NextItems]_vars

----------------------------------------------------------------------------
(* Links between items and lists: the service commands that create lists   *)
(* and items, and the link calls of the ItemService and of the background  *)
(* helper.  The triples table holds at most MaxTriples rows.               *)

LinkListIds == {"L1"}

DoLinkItemToList ==
  \E itemId \in ItemIds, listId \in LinkListIds :
    /\ Len(triples) < MaxTriples
    /\ StoreCall("linkItemToList", [itemId |-> itemId, listId |-> listId],
                 linkItemToList(DB, itemId, listId, Now))

DoLinkItemToListDirect ==
  \E itemId \in ItemIds, listId \in LinkListIds :
    /\ Len(triples) < MaxTriples
    /\ StoreCall("linkItemToListDirect", [itemId |-> itemId, listId |-> listId],
                 linkItemToListDirect(DB, itemId, listId, Now))

DoUnlinkItemFromList ==
  \E itemId \in ItemIds, listId \in LinkListIds :
    StoreCall("unlinkItemFromList", [itemId |-> itemId, listId |-> listId],
              unlinkItemFromList(DB, itemId, listId))

\* a query: the tables stay, the caller gets the rows or the rejection
DoGetItemsForList ==
  \E listId \in LinkListIds, fault \in StorageFaults :
    LET r == ItemService_getItemsForList(DB, listId, fault)
    IN /\ last' = [op |-> "getItemsForList", arg |-> [listId |-> listId, fault |-> fault],
                   pre |-> DB, preMembers |-> << >>, err |-> r.err, ret |-> r.ret,
                   members |-> << >>]
       /\ clock' = Now
       /\ UNCHANGED <<agg, storeVars, written, pc>>

NextLinks ==
  \/ DoGetItemsForList
  \/ DoCreateList
  \/ DoCreateItem
  \/ DoDeleteItem
  \/ DoLinkItemToList
  \/ DoLinkItemToListDirect
  \/ DoUnlinkItemFromList

SpecLinks == Init /\ [][NextLinks]_vars

----------------------------------------------------------------------------
(* The event store under a caller that appends what it likes: events of    *)
(* one aggregateId in any order of sequenceNo and of any type, batches     *)
(* that mix the types, and the events a List instance has emitted.         *)

LogId == "L1"
WorkListId == "L2"

\* an event type the store has no table for
OtherType == "NoteAdded"

LogEventsIn(now) ==
  {createDomainEvent("ListCreated", ListSnapshot(NameA, now), LogId, n, now) : n \in {1, 2}}
    \cup {createDomainEvent("ItemCreated", ItemSnapshot("u1", "n1", now), LogId, n, now) :
            n \in {1, 2}}
    \cup {createTripleEvent(LogId, PredBELONGS_TO, "u1", LogId, n, now) : n \in {1, 2}}
    \cup {createDomainEvent(OtherType, ListSnapshot(NameA, now), LogId, 1, now)}

DoAppendAnyEvent ==
  \E e \in LogEventsIn(Now) :
    StoreCallWithin(MaxItemLog, "appendEvent", e, Result(appendEvent(DB, e, NoAgg, Now), Null))

MixedBatchesIn(now) ==
  LET lc == createDomainEvent("ListCreated", ListSnapshot(NameA, now), LogId, 2, now)
      ic == createDomainEvent("ItemCreated", ItemSnapshot("u1", "n1", now), "u1", 1, now)
      tr == createTripleEvent(LogId, PredBELONGS_TO, "u1", LogId, 1, now)
      ot == createDomainEvent(OtherType, ListSnapshot(NameA, now), LogId, 3, now)
  IN {<<tr, lc>>, <<lc, tr>>, <<ic, lc>>, <<lc, ot>>}

DoAppendMixedBatch ==
  \E b \in MixedBatchesIn(Now) :
    StoreCallWithin(MaxItemLog, "appendEvents", b, Result(appendEvents(DB, b, NoAgg, Now), Null))

\* a list made by List.create and worked on by the calls, in order
ListWorks ==
  {<<"create">>, <<"create", "addItem">>, <<"create", "addItem", "removeItem">>,
   <<"create", "reorderItem">>}

RECURSIVE ListAfter(_, _, _)
ListAfter(ver, calls, now) ==
  IF Len(calls) = 1 THEN ListCreate(ver, NameA, IconA, Red, WorkListId, now).agg
  ELSE LET l == ListAfter(ver, SubSeq(calls, 1, Len(calls) - 1), now)
           call == calls[Len(calls)]
       IN IF call = "addItem" THEN ListAddItem(l, "u1", now).agg
          ELSE IF call = "removeItem" THEN ListRemoveItem(l, "u1", now).agg
          ELSE ListReorderItem(l, "u1", 1, now).agg

\* eventStore.appendEvents(list.getAllUncommittedEvents())
DoAppendListEvents ==
  \E ver \in {1, 2}, calls \in ListWorks :
    LET list == ListAfter(ver, calls, Now)
        events == getAllUncommittedEvents(list)
    IN /\ getEventsByAggregateId(DB, WorkListId) = << >>
       /\ StoreCallWithin(MaxItemLog, "appendEvents of list",
                          [calls |-> calls, events |-> events],
                          Result(appendEvents(DB, events, list, Now), Null))

\* a ListUpdated event as a caller builds it: every field differs from what
\* ListSnapshot and List.create put in the row
ListUpdatedIn(now) ==
  {createDomainEvent("ListUpdated",
                     [tag |-> "snap", name |-> NameB, icon |-> IconB, color |-> Blue,
                      createdAt |-> now, updatedAt |-> now],
                     id, 2, now) : id \in {LogId, WorkListId}}

DoAppendListUpdated ==
  \E e \in ListUpdatedIn(Now) :
    StoreCallWithin(MaxItemLog, "appendEvent", e, Result(appendEvent(DB, e, NoAgg, Now), Null))

NextLog ==
  \/ DoAppendListUpdated
  \/ DoAppendAnyEvent
  \/ DoAppendMixedBatch
  \/ DoAppendListEvents

SpecLog == Init /\ [][NextLog]_vars

----------------------------------------------------------------------------
(* The service commands step by step: the command builds or loads its      *)
(* aggregate and calls the mutators (Begin), awaits appendEvents, which    *)
(* resolves or rejects, and after a resolved append marks the events as    *)
(* committed and returns.  agg is the aggregate the command works on.      *)

AppendRejected == "appendEvents rejected"

\* work: the aggregate to save, or the value of an early return
Begin(op, arg, started, work, ret) ==
  /\ pc = "idle"
  /\ started => written + Len(getAllUncommittedEvents(work)) <= MaxLog
  /\ agg' = IF started THEN work ELSE NoAgg
  /\ pc' = IF started THEN "appending" ELSE "idle"
  /\ last' = [op |-> op, arg |-> arg, pre |-> DB, preMembers |-> << >>, err |-> NoErr,
              ret |-> ret, members |-> << >>]
  /\ clock' = Now
  /\ UNCHANGED <<storeVars, written>>

BeginCreateList ==
  \E ver \in {1, 2}, name \in {NameA, EmptyStr}, id \in FreshListIds :
    LET c == ListCreate(ver, name, IconA, Red, id, Now)
    IN Begin("createList", [name |-> name, id |-> id], c.err = NoErr, c.agg, Null)

BeginUpdateList ==
  \E ver \in {1, 2}, id \in ListIds :
    LET list == loadListFromEvents(DB, ver, id, Now)
        r == IF list = Null THEN Throw(NoAgg, "not found")
             ELSE changeColorIfChanged(
                    changeIconIfChanged(
                      renameIfChanged(Ret(list), [name |-> NameB], Now),
                      [name |-> NameB], Now),
                    [name |-> NameB], Now)
    IN IF r.err # NoErr THEN Begin("updateList", [id |-> id, name |-> NameB], FALSE, NoAgg, FALSE)
       ELSE Begin("updateList", [id |-> id, name |-> NameB],
                  Len(getAllUncommittedEvents(r.agg)) > 0, r.agg, TRUE)

BeginDeleteList ==
  \E ver \in {1, 2}, id \in ListIds :
    LET list == loadListFromEvents(DB, ver, id, Now)
    IN IF list = Null THEN Begin("deleteList", [id |-> id], FALSE, NoAgg, FALSE)
       ELSE Begin("deleteList", [id |-> id], TRUE, ListDelete(list, Now).agg, FALSE)

BeginCreateItem ==
  \E p \in Payloads :
    LET f == extractNormalizedFields(p)
        existingItem == FirstByUrl(itemProjections, f.url)
    IN IF existingItem # NoRow THEN Begin("createItem", p, FALSE, NoAgg, existingItem)
       ELSE Begin("createItem", p, TRUE,
                  ItemCreate(f.id, f.name, f.url, f.type, p, f.image, f.description, Now).agg,
                  Null)

BeginUpdateItem ==
  \E id \in ItemIds :
    IF itemProjections[id] = NoRow
      THEN Begin("updateItem", [id |-> id, name |-> "n2"], FALSE, NoAgg, FALSE)
    ELSE LET item == ItemFromEvents(id, getEventsByAggregateId(DB, id), NoAgg, Now).agg
             r == ItemUpdateMetadata(item, [name |-> "n2", image |-> Undef,
                                            description |-> Undef], Now)
         IN Begin("updateItem", [id |-> id, name |-> "n2"], r.err = NoErr, r.agg, FALSE)

BeginDeleteItem ==
  \E id \in ItemIds :
    IF itemProjections[id] = NoRow THEN Begin("deleteItem", [id |-> id], FALSE, NoAgg, FALSE)
    ELSE LET item == ItemFromEvents(id, getEventsByAggregateId(DB, id), NoAgg, Now).agg
         IN Begin("deleteItem", [id |-> id], TRUE, ItemDelete(item, Now).agg, FALSE)

\* await appendEvents(events); aggregate.markAllEventsAsCommitted(): the
\* second statement runs when the await has resolved, a rejection goes to
\* the catch block
afterAppend_MarksAnyway(a, resolved) == markAllEventsAsCommitted(a)

afterAppend(a, resolved) == IF resolved THEN markAllEventsAsCommitted(a) ELSE a

AppendResolves ==
  /\ pc = "appending"
  /\ LET db1 == appendEvents(DB, getAllUncommittedEvents(agg), agg, Now)
     IN /\ listEvents' = db1.listEvents
        /\ itemEvents' = db1.itemEvents
        /\ listProjections' = db1.listProjections
        /\ itemProjections' = db1.itemProjections
        /\ triples' = db1.triples
        /\ written' = written + (getEventCount(db1) - getEventCount(DB))
  /\ pc' = "marking"
  /\ clock' = Now
  /\ UNCHANGED <<agg, last>>

AppendRejects ==
  /\ pc = "appending"
  /\ agg' = afterAppend(agg, FALSE)
  /\ last' = [last EXCEPT !.err = AppendRejected,
                          !.ret = IF last.op \in {"createList", "createItem"} THEN Null ELSE FALSE]
  /\ pc' = "idle"
  /\ clock' = Now
  /\ UNCHANGED <<storeVars, written>>

MarkAndReturn ==
  /\ pc = "marking"
  /\ agg' = afterAppend(agg, TRUE)
  /\ last' = [last EXCEPT
                !.ret = IF last.op = "createList" THEN afterAppend(agg, TRUE)
                        ELSE IF last.op = "createItem"
                          THEN IF agg.id # Undef /\ itemProjections[agg.id] # NoRow
                                 THEN itemProjections[agg.id] ELSE Null
                        ELSE TRUE]
  /\ pc' = "idle"
  /\ clock' = Now
  /\ UNCHANGED <<storeVars, written>>

NextCommands ==
  \/ BeginCreateList
  \/ BeginUpdateList
  \/ BeginDeleteList
  \/ BeginCreateItem
  \/ BeginUpdateItem
  \/ BeginDeleteItem
  \/ AppendResolves
  \/ AppendRejects
  \/ MarkAndReturn

SpecCommands == Init /\ [][NextCommands]_vars

----------------------------------------------------------------------------
(* An aggregate root with child entities.  The root registers entities it  *)
(* creates, each one once; the root and every child count their own events *)
(* from 1.  The payload of an event records how many events the root had   *)
(* emitted when the event was created.                                     *)

RootId == "R1"
ChildIds == {"c1", "c2"}

IsRoot == agg.kind = "Root"
ChangeData(root) == [tag |-> "change", after |-> root.sequenceNo]
ChildIdsOf(root) == {root.childEntities[i].id : i \in DOMAIN root.childEntities}

\* events emitted so far by the root and the children it holds
RECURSIVE ChildSequenceNos(_)
ChildSequenceNos(children) ==
  IF children = << >> THEN 0
  ELSE Head(children).sequenceNo + ChildSequenceNos(Tail(children))
EmittedCount(root) == root.sequenceNo + ChildSequenceNos(root.childEntities)

DoNewRoot ==
  /\ agg = NoAgg
  /\ AggCall("new Root", RootId, Ret(NewRoot(RootId)), NoAgg, << >>)

DoRootEvent ==
  /\ IsRoot
  /\ EmittedCount(agg) < MaxSeq
  /\ AggCall("applyEvent", RootId,
             Ret(applyEvent(agg, createDomainEvent("RootChanged", ChangeData(agg), agg.id,
                                                   agg.sequenceNo + 1, Now))),
             NoAgg, << >>)

DoAddChildEntity ==
  /\ IsRoot
  /\ \E c \in ChildIds \ ChildIdsOf(agg) :
       AggCall("addChildEntity", c, Ret(addChildEntity(agg, NewEntity(c))), NoAgg, << >>)

\* the root holds a reference to the child: what the child emits, the root sees
DoChildEvent ==
  /\ IsRoot
  /\ \E i \in DOMAIN agg.childEntities :
       LET child == agg.childEntities[i]
           e == createDomainEvent("ChildChanged", ChangeData(agg), child.id,
                                  child.sequenceNo + 1, Now)
       IN /\ EmittedCount(agg) < MaxSeq
          /\ AggCall("child.applyEvent", child.id,
                     Ret([agg EXCEPT !.childEntities[i] = applyEvent(child, e)]),
                     NoAgg, << >>)

DoRemoveChildEntity ==
  /\ IsRoot
  /\ \E c \in ChildIdsOf(agg) :
       AggCall("removeChildEntity", c, Ret(removeChildEntity(agg, c)), NoAgg, << >>)

\* hydrateAggregate(events) on the root as it stands, with events a store
\* could hand back: none, in order, out of order, starting above 1
StoredChange(n) == createDomainEvent("RootChanged", [tag |-> "change", after |-> n - 1], RootId, n, 0)
Histories ==
  {<< >>, <<StoredChange(1)>>, <<StoredChange(1), StoredChange(2)>>,
   <<StoredChange(2), StoredChange(1)>>, <<StoredChange(MaxSeq)>>}

DoHydrateAggregate ==
  /\ IsRoot
  /\ \E events \in Histories :
       AggCall("hydrateAggregate", events, Ret(hydrateAggregate(agg, events, agg)),
               NoAgg, << >>)

NextChildren ==
  \/ DoHydrateAggregate
  \/ DoNewRoot
  \/ DoRootEvent
  \/ DoAddChildEntity
  \/ DoChildEvent
  \/ DoRemoveChildEntity
  \/ DoMarkCommitted

SpecChildren == Init /\ [][NextChildren]_vars

----------------------------------------------------------------------------
(* ListMetadata on its own: the constructor, withName and withIcon on      *)
(* names and icons at and around the length limits.                        *)

Chars(n, c) == [i \in 1..n |-> c]
NamesAtLimits ==
  {Chars(n, c) : n \in {0, 1, MaxNameLen, MaxNameLen + 1}, c \in {"a", " "}}
IconsAtLimits ==
  {Chars(n, c) : n \in {0, 1, MaxIconLen, MaxIconLen + 1}, c \in {"i", " "}}

IsMetadata == agg.kind = "ListMetadata"

\* m is the outcome of the constructor on name, icon, color; a constructor
\* that threw leaves the caller with the value it had
MetadataCall(op, name, icon, color) ==
  LET m == ListMetadata(name, icon, color)
  IN /\ agg' = IF m.err # NoErr THEN agg
               ELSE [kind |-> "ListMetadata", name |-> m.val.name, icon |-> m.val.icon,
                     color |-> m.val.color]
     /\ last' = [op |-> op, arg |-> [name |-> name, icon |-> icon, color |-> color],
                 pre |-> agg, preMembers |-> << >>, err |-> m.err, ret |-> NoAgg,
                 members |-> << >>]
     /\ clock' = Now
     /\ UNCHANGED <<storeVars, written, pc>>

DoNewListMetadata ==
  /\ agg = NoAgg
  /\ \E name \in NamesAtLimits, icon \in IconsAtLimits :
       MetadataCall("new ListMetadata", name, icon, Red)

DoWithName ==
  /\ IsMetadata
  /\ \E newName \in NamesAtLimits : MetadataCall("withName", newName, agg.icon, agg.color)

DoWithIcon ==
  /\ IsMetadata
  /\ \E newIcon \in IconsAtLimits : MetadataCall("withIcon", agg.name, newIcon, agg.color)

NextMetadata ==
  \/ DoNewListMetadata
  \/ DoWithName
  \/ DoWithIcon

SpecMetadata == Init /\ [][NextMetadata]_vars

----------------------------------------------------------------------------
(* Properties of the aggregates (SpecAgg) *)

DeletedTypes == {"ListDeleted", "ItemDeleted"}
DeletedCount(a) == Len(SelectSeq(EmittedEvents(a), LAMBDA e : e.type \in DeletedTypes))
SameBuffer == agg.uncommittedEvents = last.pre.uncommittedEvents
                /\ agg.sequenceNo = last.pre.sequenceNo
Emitted(n) == Len(EmittedEvents(agg)) = Len(EmittedEvents(last.pre)) + n

\* C3: List.fromEvents(list.id, events), with the events List.create and the
\* rename / changeIcon / changeColor calls emitted, returns a List whose
\* name, icon and color equal those of the original list.
C3_ListReplayDeterminism ==
  (last.op = "fromEvents" /\ last.pre.kind = "List")
    => /\ last.err = NoErr
       /\ last.ret.kind = "List"
       /\ last.ret.metadata.name = last.pre.metadata.name
       /\ last.ret.metadata.icon = last.pre.metadata.icon
       /\ last.ret.metadata.color = last.pre.metadata.color

\* C4: Item.fromEvents(id, events) with the emitted events returns an Item
\* whose name, url, type, image, description, jsonLd and deleted flag equal
\* the original's; rebuilt from a history that ends in ItemDeleted it is
\* deleted and rejects updateMetadata.
C4_ItemReplayDeterminism ==
  (last.op = "fromEvents" /\ last.pre.kind = "Item")
    => /\ last.err = NoErr
       /\ last.ret.name = last.pre.name
       /\ last.ret.url = last.pre.url
       /\ last.ret.type = last.pre.type
       /\ last.ret.image = last.pre.image
       /\ last.ret.description = last.pre.description
       /\ last.ret.jsonLd = last.pre.jsonLd
       /\ last.ret.deleted = last.pre.deleted
       /\ (DeletedCount(last.pre) > 0 =>
             ItemUpdateMetadata(last.ret, [name |-> "n3", image |-> Undef, description |-> Undef],
                                clock).err # NoErr)

\* the last call handed a List the name, icon or color it already had
NoOpCall ==
  \/ last.op = "rename" /\ last.arg = last.pre.metadata.name
  \/ last.op = "changeIcon" /\ last.arg = last.pre.metadata.icon
  \/ last.op = "changeColor" /\ last.arg = last.pre.metadata.color

\* C5: rename, changeIcon or changeColor called on a List with the value it
\* already has emits no event: uncommittedEvents and sequenceNo are the same
\* after the call as before it.
C5_NoOpSuppressesEvents == NoOpCall => SameBuffer

C5_Witness ==
  /\ last.op = "rename"
  /\ last.arg = last.pre.metadata.name
  /\ last.err = NoErr
  /\ Len(agg.uncommittedEvents) = 2

\* C6: delete() called any number of times on a List or an Item emits exactly
\* one ListDeleted / ItemDeleted event in total; every call after the first
\* leaves the uncommitted buffer and sequenceNo unchanged.
C6_IdempotentDelete ==
  agg # NoAgg
    => /\ DeletedCount(agg) <= 1
       /\ (last.op = "delete" /\ DeletedCount(last.pre) > 0) => SameBuffer

Mutators ==
  {"rename", "changeIcon", "changeColor", "addItem", "removeItem", "reorderItem",
   "updateMetadata", "updateJsonLd"}

\* C7: after delete(), rename, changeIcon, changeColor, addItem, removeItem
\* and reorderItem on a List, and updateMetadata and updateJsonLd on an Item,
\* throw and append no event.
C7_MutatorsRejectDeleted ==
  (last.op \in Mutators /\ DeletedCount(last.pre) > 0)
    => (last.err # NoErr /\ agg = last.pre)

\* the messages the item-reference checks are to throw
AlreadyInList(id) == "Item " \o id \o " is already in the list"
NotInList(id) == "Item " \o id \o " is not in the list"

\* C8: addItem(item) after addItem(item) with the same id throws
\* 'Item <id> is already in the list' and emits no event.
C8_DuplicateItemRejected ==
  (last.op = "addItem" /\ DeletedCount(last.pre) = 0 /\ last.arg \in MemberIds(last.preMembers))
    => (last.err = AlreadyInList(last.arg) /\ SameBuffer)

\* C9: removeItem(id) for an id that was never added to the list, or was
\* already removed, throws 'Item <id> is not in the list' and emits no event.
C9_MissingItemRemovalRejected ==
  (last.op = "removeItem" /\ DeletedCount(last.pre) = 0 /\ last.arg \notin MemberIds(last.preMembers))
    => (last.err = NotInList(last.arg) /\ SameBuffer)

\* C10: reorderItem(itemId, newOrder) throws 'Item <id> is not in the list'
\* when the item is not in the list, emits no event when newOrder equals the
\* item's current order, and emits exactly one TripleEvent otherwise.
C10_ReorderItem ==
  (last.op = "reorderItem" /\ DeletedCount(last.pre) = 0)
    => IF last.arg.item \notin MemberIds(last.preMembers)
         THEN last.err = NotInList(last.arg.item) /\ SameBuffer
       ELSE IF last.arg.order = OrderOf(last.preMembers, last.arg.item)
         THEN last.err = NoErr /\ SameBuffer
       ELSE /\ last.err = NoErr
            /\ Emitted(1)
            /\ agg.uncommittedEvents[Len(agg.uncommittedEvents)].type = "TripleEvent"

----------------------------------------------------------------------------
(* Projections and the event log *)

\* the log holds a created event for X that no deleted event for X follows
LiveInLog(log, created, deleted, X) ==
  \E i \in DOMAIN log :
    /\ log[i].type = created /\ log[i].aggregateId = X
    /\ \A j \in (i + 1)..Len(log) : ~(log[j].type = deleted /\ log[j].aggregateId = X)

\* C1: after any sequence of service and event-store operations, among them
\* clearEvents, listProjections holds a row for X exactly when the log holds
\* a ListCreated for X not followed by a ListDeleted for X, and
\* itemProjections likewise for ItemCreated / ItemDeleted.
C1_ProjectionsAgreeWithLog ==
  /\ \A X \in ListIds :
       (listProjections[X] # NoRow) <=> LiveInLog(listEvents, "ListCreated", "ListDeleted", X)
  /\ \A X \in ItemIds :
       (itemProjections[X] # NoRow) <=> LiveInLog(itemEvents, "ItemCreated", "ItemDeleted", X)

AppendedList(type) == last.op = "appendEvent" /\ last.arg.type = type

RowMatches(row, e) ==
  /\ row # NoRow
  /\ row.name = e.data.name /\ row.icon = e.data.icon /\ row.color = e.data.color

\* C2 as stated: appending a ListCreated event for X leaves a listProjections
\* row for X whose name, icon and color match the event, and appending a
\* ListDeleted event for X leaves no row for X.
C2_AppendProjects ==
  /\ AppendedList("ListCreated") => RowMatches(listProjections[last.arg.aggregateId], last.arg)
  /\ AppendedList("ListDeleted") => listProjections[last.arg.aggregateId] = NoRow

\* C2, amended: appending a ListCreated event for an id X that has no
\* listProjections row leaves a row for X whose name, icon and color match
\* the event; appending a ListDeleted event for X leaves no row for X.
C2_AppendProjectsFreshId ==
  /\ (AppendedList("ListCreated") /\ last.pre.listProjections[last.arg.aggregateId] = NoRow)
       => RowMatches(listProjections[last.arg.aggregateId], last.arg)
  /\ AppendedList("ListDeleted") => listProjections[last.arg.aggregateId] = NoRow

\* a ListDeleted event was appended for a list created through the store,
\* whose row matched the ListCreated event, and the row is gone
C2_Witness ==
  /\ AppendedList("ListDeleted")
  /\ Len(listEvents) = 2
  /\ listEvents[1].type = "ListCreated"
  /\ listEvents[1].aggregateId = last.arg.aggregateId
  /\ RowMatches(last.pre.listProjections[last.arg.aggregateId], listEvents[1])
  /\ listProjections[last.arg.aggregateId] = NoRow

----------------------------------------------------------------------------
(* Item references of a List *)

\* C11: after any sequence of addItem / removeItem calls on a List,
\* itemCount is the number of items added and not yet removed, hasItem(id)
\* is true exactly for those items, and getItemReferences lists them in the
\* order they were added.
C11_ItemBookkeeping ==
  (last.op \in {"addItem", "removeItem"} /\ last.err = NoErr)
    => /\ itemCount(agg) = [number |-> Len(last.members)]
       /\ \A id \in ItemIds : hasItem(agg, id) = [boolean |-> id \in MemberIds(last.members)]
       /\ getItemReferences(agg) =
            [array |-> [i \in DOMAIN last.members |-> last.members[i].itemId]]

----------------------------------------------------------------------------
(* Item service *)

\* two payloads that carry the same url
ShareUrl(p, q) == Get(p, "url") # Undef /\ Get(p, "url") = Get(q, "url")

\* C12: of two createItem calls in a row whose payloads share the same url,
\* the second returns a projection with the id the first returned, adds no
\* row to itemProjections and appends no event to the log.
C12_CreateItemDeduplicates ==
  [][(last.op = "createItem" /\ last'.op = "createItem" /\ ShareUrl(last.arg, last'.arg))
       => /\ last.ret # Null /\ last'.ret # Null /\ last'.ret.id = last.ret.id
          /\ itemProjections' = itemProjections
          /\ itemEvents' = itemEvents /\ listEvents' = listEvents]_vars

\* the last call named an item and a list that both have a projection row
OnExistingPair ==
  /\ last.pre.itemProjections[last.arg.itemId] # NoRow
  /\ last.pre.listProjections[last.arg.listId] # NoRow

Includes(items, itemId) == \E i \in DOMAIN items : items[i].id = itemId

\* C13: for an existing item and list, after linkItemToList(itemId, listId)
\* getItemsForList(listId) includes an item with id = itemId, and after a
\* following unlinkItemFromList(itemId, listId) it does not include it.
C13_LinkRoundTrip ==
  /\ (last.op = "linkItemToList" /\ OnExistingPair)
       => Includes(getItemsForList(DB, last.arg.listId), last.arg.itemId)
  /\ (last.op = "unlinkItemFromList" /\ OnExistingPair)
       => ~Includes(getItemsForList(DB, last.arg.listId), last.arg.itemId)

\* an unlink that followed a link of the same existing pair
C13_Witness ==
  /\ last.op = "unlinkItemFromList"
  /\ OnExistingPair
  /\ Includes(getItemsForList(last.pre, last.arg.listId), last.arg.itemId)
  /\ ~Includes(getItemsForList(DB, last.arg.listId), last.arg.itemId)

Rejected(op, value) ==
  \/ op = "rename" /\ validateName(value) # NoErr
  \/ op = "changeIcon" /\ validateIcon(value) # NoErr
  \/ op = "changeColor" /\ validateColor(value) # NoErr

\* C18: rename, changeIcon or changeColor with a value ListMetadata rejects
\* throws and leaves the list as it was: name, icon, color, updatedAt,
\* sequenceNo and the uncommitted buffer.
C18_RejectedMutatorChangesNothing ==
  Rejected(last.op, last.arg)
    => /\ last.err # NoErr
       /\ agg.metadata = last.pre.metadata
       /\ agg.updatedAt = last.pre.updatedAt
       /\ agg.sequenceNo = last.pre.sequenceNo
       /\ agg.uncommittedEvents = last.pre.uncommittedEvents

\* a rejected value on a live list that holds an uncommitted event, at an
\* instant later than its last update
C18_Witness ==
  /\ Rejected(last.op, last.arg)
  /\ ~last.pre.deleted
  /\ last.pre.uncommittedEvents # << >>
  /\ last.pre.updatedAt < clock

\* C21: on an aggregate built by List.create or Item.create and worked on by
\* mutators, sequenceNo is the number of events emitted so far, and the
\* emitted events carry sequenceNo 1, 2, ..., n: no gap, no repeat, the last
\* one equal to the aggregate's sequenceNo.
C21_SequenceNoCountsEvents ==
  (IsList \/ IsItem)
    => /\ agg.sequenceNo = Len(EmittedEvents(agg))
       /\ \A i \in DOMAIN EmittedEvents(agg) : EmittedEvents(agg)[i].sequenceNo = i

\* three events emitted, some committed in between, the last call a mutator
C21_Witness ==
  /\ IsList \/ IsItem
  /\ last.op \in {"rename", "addItem", "delete", "updateMetadata"}
  /\ last.err = NoErr
  /\ agg.sequenceNo = MaxSeq
  /\ agg.events # << >>
  /\ agg.uncommittedEvents # << >>

----------------------------------------------------------------------------
(* Properties of an aggregate root with child entities (SpecChildren) *)

PendingOf(root) ==
  {root.uncommittedEvents[i] : i \in DOMAIN root.uncommittedEvents}
    \cup UNION {{c.uncommittedEvents[i] : i \in DOMAIN c.uncommittedEvents} :
                c \in {root.childEntities[k] : k \in DOMAIN root.childEntities}}

Occurrences(seq, e) == Cardinality({i \in DOMAIN seq : seq[i] = e})

C23_HydrateResets ==
  (IsRoot /\ last.op = "hydrateAggregate")
    => /\ agg.uncommittedEvents = << >>
       /\ agg.sequenceNo = IF last.arg = << >> THEN 0
                            ELSE last.arg[Len(last.arg)].sequenceNo
       /\ agg.events = last.arg

\* a root with uncommitted events and a history of its own, hydrated from
\* events that end below its sequenceNo
C23_Witness ==
  /\ IsRoot
  /\ last.op = "hydrateAggregate"
  /\ last.pre.uncommittedEvents # << >>
  /\ last.pre.events # << >>
  /\ last.arg = <<StoredChange(2), StoredChange(1)>>
  /\ last.pre.sequenceNo > agg.sequenceNo

\* what an entity is apart from its two event lists
Stripped(e) == [e EXCEPT !.events = << >>, !.uncommittedEvents = << >>]
Frame(root) ==
  [Stripped(root) EXCEPT !.childEntities = [i \in DOMAIN @ |-> Stripped(@[i])]]

\* C24: markAllEventsAsCommitted empties the uncommitted buffer of the root
\* and of every child, moving the events into the history, and leaves
\* sequenceNo and every other field of root and children as they were; a
\* getAllUncommittedEvents that follows returns no event and a second
\* markAllEventsAsCommitted changes nothing.
C24_MarkAllCommitted ==
  (IsRoot /\ last.op = "markAllEventsAsCommitted")
    => /\ agg.uncommittedEvents = << >>
       /\ \A i \in DOMAIN agg.childEntities : agg.childEntities[i].uncommittedEvents = << >>
       /\ agg.events = last.pre.events \o last.pre.uncommittedEvents
       /\ Frame(agg) = Frame(last.pre)
       /\ getAllUncommittedEvents(agg) = << >>
       /\ markAllEventsAsCommitted(agg) = agg

\* the root and one of its children both held uncommitted events
C24_Witness ==
  /\ IsRoot
  /\ last.op = "markAllEventsAsCommitted"
  /\ last.pre.uncommittedEvents # << >>
  /\ \E i \in DOMAIN last.pre.childEntities :
       last.pre.childEntities[i].uncommittedEvents # << >>

----------------------------------------------------------------------------
(* Properties of ListService on lists it created (Spec) *)

\* Only createList writes a ListCreated event for an id no caller of the store
\* uses: such an id with ListCreated as the first event of its log, and no
\* ListDeleted, is one createList returned and nobody deleted.
CreatedAndLive(db, id) ==
  LET events == getEventsByAggregateId(db, id)
  IN /\ id \notin CallerListIds
     /\ events # << >>
     /\ events[1].type = "ListCreated"
     /\ \A i \in DOMAIN events : events[i].type # "ListDeleted"

AppendedOne(type, id) ==
  /\ itemEvents = last.pre.itemEvents
  /\ Len(listEvents) = Len(last.pre.listEvents) + 1
  /\ SubSeq(listEvents, 1, Len(last.pre.listEvents)) = last.pre.listEvents
  /\ listEvents[Len(listEvents)].type = type
  /\ listEvents[Len(listEvents)].aggregateId = id

\* C15: deleteList(id) on a list createList returned and nobody deleted gives
\* true, appends exactly one ListDeleted event for id and leaves no
\* listProjections row for id.
C15_DeleteCreatedList ==
  (last.op = "deleteList" /\ CreatedAndLive(last.pre, last.arg.id))
    => /\ last.ret = TRUE
       /\ AppendedOne("ListDeleted", last.arg.id)
       /\ listProjections[last.arg.id] = NoRow

\* C16: updateList(id, {name: n}) on a list createList returned and nobody
\* deleted, with a valid n that is not its name, gives true, appends exactly
\* one ListUpdated event for id and leaves the listProjections row of id with
\* name n.
C16_UpdateCreatedList ==
  (/\ last.op = "updateList" /\ CreatedAndLive(last.pre, last.arg.id)
   /\ validateName(last.arg.name) = NoErr
   /\ last.pre.listProjections[last.arg.id] # NoRow
   /\ last.pre.listProjections[last.arg.id].name # last.arg.name)
    => /\ last.ret = TRUE
       /\ AppendedOne("ListUpdated", last.arg.id)
       /\ listProjections[last.arg.id] # NoRow
       /\ listProjections[last.arg.id].name = last.arg.name

----------------------------------------------------------------------------
(* Properties of the services under storage failures (SpecLinks) *)

ServiceCalls ==
  {"createList", "createItem", "deleteItem", "linkItemToList", "unlinkItemFromList",
   "getItemsForList"}

\* C17: no call of a service method rejects: a call that meets a validation
\* or storage failure resolves to its failure value.
C17_ServicesNeverReject ==
  last.op \in ServiceCalls => last.err = NoErr

----------------------------------------------------------------------------
(* Properties of ListMetadata (SpecMetadata) *)

MetadataCalls == {"new ListMetadata", "withName", "withIcon"}
NameErrors == {"List name cannot be empty", "List name cannot exceed 100 characters"}
IconErrors == {"List icon cannot be empty", "List icon cannot exceed 50 characters"}
NotBlank(s) == Len(Trim(s)) > 0

\* C19 as stated: the constructor, withName and withIcon accept a name of
\* length 1 to 100, reject a name of length 0, reject a name of length 101 or
\* more with the message about 100 characters, accept an icon of length 1 to
\* 50 and reject a longer one.
C19_LengthBoundary ==
  last.op \in MetadataCalls =>
    /\ (Len(last.arg.name) >= 1 /\ Len(last.arg.name) <= MaxNameLen)
          => last.err \notin NameErrors
    /\ Len(last.arg.name) = 0 => last.err \in NameErrors
    /\ Len(last.arg.name) > MaxNameLen
          => last.err = "List name cannot exceed 100 characters"
    /\ last.err \notin NameErrors
          => /\ (Len(last.arg.icon) >= 1 /\ Len(last.arg.icon) <= MaxIconLen)
                  => last.err \notin IconErrors
             /\ Len(last.arg.icon) > MaxIconLen => last.err \in IconErrors

\* C19, names and icons of whitespace only set apart: what has a character
\* other than whitespace is accepted up to the limit and rejected above it, a
\* name above the limit with the message about 100 characters; the empty name
\* is rejected; a name or icon of whitespace only is rejected as empty
\* whatever its length.
C19_LengthBoundaryNotBlank ==
  last.op \in MetadataCalls =>
    /\ (NotBlank(last.arg.name) /\ Len(last.arg.name) <= MaxNameLen)
          => last.err \notin NameErrors
    /\ ~NotBlank(last.arg.name) => last.err = "List name cannot be empty"
    /\ (NotBlank(last.arg.name) /\ Len(last.arg.name) > MaxNameLen)
          => last.err = "List name cannot exceed 100 characters"
    /\ last.err \notin NameErrors
          => /\ (NotBlank(last.arg.icon) /\ Len(last.arg.icon) <= MaxIconLen)
                  => last.err \notin IconErrors
             /\ ~NotBlank(last.arg.icon) => last.err = "List icon cannot be empty"
             /\ (NotBlank(last.arg.icon) /\ Len(last.arg.icon) > MaxIconLen)
                  => last.err = "List icon cannot exceed 50 characters"

\* withName with a name of exactly 100 characters, accepted
C19_Witness ==
  /\ last.op = "withName"
  /\ last.arg.name = Chars(MaxNameLen, "a")
  /\ last.err = NoErr
  /\ agg.name = last.arg.name

----------------------------------------------------------------------------
(* Properties of the triples table (SpecLinks) *)

Recorded(db, row) ==
  \E i \in DOMAIN db.listEvents :
    /\ db.listEvents[i].type = "TripleEvent"
    /\ db.listEvents[i].data.subject = row.subject
    /\ db.listEvents[i].data.predicate = row.predicate
    /\ db.listEvents[i].data.object = row.object

\* C20: every row of the triples table has a TripleEvent in the log with its
\* subject, predicate and object, and a call that leaves the table with fewer
\* rows has appended an event.
C20_TriplesComeFromEvents ==
  /\ \A i \in DOMAIN triples : Recorded(DB, triples[i])
  /\ (last.op \in ServiceCalls /\ Len(triples) < Len(last.pre.triples))
       => getEventCount(DB) > getEventCount(last.pre)

----------------------------------------------------------------------------
(* Properties of the item log (SpecItems) *)

\* C22: the events the log holds for one aggregateId have pairwise distinct
\* sequenceNo values, after any sequence of service calls.
C22_DistinctSequenceNos ==
  \A id \in ItemIds \cup ListIds :
    LET events == getEventsByAggregateId(DB, id)
    IN \A i, j \in DOMAIN events : i # j => events[i].sequenceNo # events[j].sequenceNo

----------------------------------------------------------------------------
(* Properties of the service commands step by step (SpecCommands) *)

Stored(e) ==
  \E i \in DOMAIN (listEvents \o itemEvents) :
    LET s == (listEvents \o itemEvents)[i]
    IN s.aggregateId = e.aggregateId /\ s.sequenceNo = e.sequenceNo
       /\ s.type = e.type /\ s.timestamp = e.timestamp

\* C25: in a service command the events of the aggregate are marked
\* committed only after appendEvents has resolved, so every committed event
\* of the aggregate is in the log; a command whose appendEvents rejects
\* returns null or false and leaves the events of its aggregate uncommitted.
C25_CommitAfterAppend ==
  agg # NoAgg =>
    /\ \A i \in DOMAIN agg.events : Stored(agg.events[i])
    /\ (pc = "idle" /\ last.err = AppendRejected)
         => /\ IF last.op \in {"createList", "createItem"} THEN last.ret = Null
               ELSE last.ret = FALSE
            /\ DB = last.pre

\* deleteItem whose appendEvents rejected: the ItemDeleted event is still in
\* the uncommitted buffer of the item and not in the log
C25_Witness ==
  /\ pc = "idle"
  /\ last.op = "deleteItem"
  /\ last.err = AppendRejected
  /\ Len(agg.uncommittedEvents) = 1
  /\ agg.events # << >>

----------------------------------------------------------------------------
(* Properties of the event store (SpecLog) *)

AllStored == listEvents \o itemEvents

\* C26: getEventsByAggregateId(id) holds exactly the events of the two log
\* tables whose aggregateId is id, the TripleEvents of the list log among
\* them, each as often as the tables hold it, in non-decreasing sequenceNo
\* order whatever the order of insertion.
C26_EventsOfAggregate ==
  \A id \in {LogId, WorkListId, "u1"} :
    LET out == getEventsByAggregateId(DB, id)
    IN /\ \A i \in DOMAIN AllStored :
            Occurrences(out, AllStored[i])
              = IF AllStored[i].aggregateId = id THEN Occurrences(AllStored, AllStored[i]) ELSE 0
       /\ \A i \in DOMAIN out : out[i].aggregateId = id /\ Occurrences(AllStored, out[i]) > 0
       /\ \A i, j \in DOMAIN out : i < j => out[i].sequenceNo <= out[j].sequenceNo

\* the list log holds a TripleEvent and a ListCreated of the id inserted
\* against their sequenceNo order, the item log an event of the same id
C26_Witness ==
  /\ \E i, j \in DOMAIN listEvents :
       /\ i < j
       /\ listEvents[i].aggregateId = LogId /\ listEvents[j].aggregateId = LogId
       /\ listEvents[i].sequenceNo > listEvents[j].sequenceNo
       /\ listEvents[j].type = "TripleEvent"
  /\ \E k \in DOMAIN itemEvents : itemEvents[k].aggregateId = LogId

AppendCalls == {"appendEvent", "appendEvents", "appendEvents of list"}
Passed ==
  IF last.op = "appendEvent" THEN <<last.arg>>
  ELSE IF last.op = "appendEvents" THEN last.arg
  ELSE last.arg.events

\* C27: when appendEvent or appendEvents has resolved, getEventCount has
\* grown by the number of events passed, whatever their type.
C27_EveryEventStored ==
  last.op \in AppendCalls
    => getEventCount(DB) = getEventCount(last.pre) + Len(Passed)

Routed(type) == StartsWithList(type) \/ StartsWithItem(type) \/ type = "TripleEvent"

\* C27, for the types the store routes: when appendEvent or appendEvents has
\* resolved with events whose type starts with List or Item or is
\* TripleEvent, getEventCount has grown by the number of events passed; an
\* event of any other type is not stored and does not count.
C27_RoutedEventsStored ==
  last.op \in AppendCalls
    => getEventCount(DB)
         = getEventCount(last.pre) + Len(SelectSeq(Passed, LAMBDA e : Routed(e.type)))

\* a batch of an Item* and a List* event, one stored in each table
C27_Witness ==
  /\ last.op = "appendEvents"
  /\ Len(last.arg) = 2
  /\ last.arg[1].type = "ItemCreated" /\ last.arg[2].type = "ListCreated"
  /\ Len(itemEvents) = Len(last.pre.itemEvents) + 1
  /\ Len(listEvents) = Len(last.pre.listEvents) + 1

\* what identifies an event in a table
Key(e) == <<e.type, e.aggregateId, e.sequenceNo>>
KeysOf(events) == [i \in DOMAIN events |-> Key(events[i])]
ForListLog(events) ==
  SelectSeq(events, LAMBDA e : StartsWithList(e.type) \/ e.type = "TripleEvent")

\* C28: appendEvents stores the events in the order of the input array: the
\* events the call has added to the list log stand there in the order they
\* have in the array, also when the batch mixes List*, Item* and TripleEvent
\* types.
C28_StoredInInputOrder ==
  last.op \in {"appendEvents", "appendEvents of list"}
    => KeysOf(SubSeq(listEvents, Len(last.pre.listEvents) + 1, Len(listEvents)))
         = KeysOf(ForListLog(Passed))

ContainsRows(db, listId, itemId, predicate) ==
  SelectSeq(db.triples,
            LAMBDA t : t.subject = listId /\ t.object = itemId /\ t.predicate = predicate)

\* C29: appending the events of a list on which addItem (predicate CONTAINS)
\* or reorderItem (predicate ORDERED_BY) was called adds one row to the
\* triples table with the subject, predicate and object of the TripleEvent.
C29_TripleEventProjected ==
  (last.op = "appendEvents of list" /\ Len(last.arg.calls) = 2)
    => /\ Len(triples) = Len(last.pre.triples) + 1
       /\ LET e == last.arg.events[2]
          IN Len(ContainsRows(DB, e.data.subject, e.data.object, e.data.predicate)) = 1

SameButNumberAndTime(e1, e2) ==
  [e1 EXCEPT !.sequenceNo = 0, !.timestamp = 0] = [e2 EXCEPT !.sequenceNo = 0, !.timestamp = 0]

\* C30: after the events of addItem(x) followed by removeItem(x) have been
\* appended, the triples table holds no CONTAINS row linking the list and x,
\* and the event of removeItem differs from the event of addItem in more than
\* its sequenceNo and timestamp.
C30_RemoveUndoesAdd ==
  (last.op = "appendEvents of list" /\ last.arg.calls = <<"create", "addItem", "removeItem">>)
    => /\ ContainsRows(DB, WorkListId, "u1", PredCONTAINS) = << >>
       /\ ContainsRows(DB, WorkListId, "u1", "CONTAINS") = << >>
       /\ ~SameButNumberAndTime(last.arg.events[2], last.arg.events[3])

RowsOf(tbl, subject, predicate, object) ==
  SelectSeq(tbl, LAMBDA t : t.subject = subject /\ t.predicate = predicate /\ t.object = object)

EachOnce(rows) == \A i, j \in DOMAIN rows : rows[i].id = rows[j].id => i = j

\* C31: whatever links, unlinks and appends came before, the triples table
\* holds at most one row per (subject, predicate, object) and
\* getItemsForList(listId) returns each item at most once.
C31_OneRowPerLink ==
  /\ \A i \in DOMAIN triples :
       Len(RowsOf(triples, triples[i].subject, triples[i].predicate, triples[i].object)) = 1
  /\ \A listId \in LinkListIds : EachOnce(getItemsForList(DB, listId))

\* linkItemToList called a second time with the arguments of a row that is
\* already there, and the item then listed twice
C31_LinkedTwice ==
  /\ last.op = "linkItemToList"
  /\ Len(RowsOf(last.pre.triples, last.arg.itemId, "belongs_to", last.arg.listId)) = 1
  /\ Len(RowsOf(triples, last.arg.itemId, "belongs_to", last.arg.listId)) = 2
  /\ ~EachOnce(getItemsForList(DB, last.arg.listId))

\* C32: appending a ListUpdated event for an id without a listProjections row
\* adds no row and raises no error; for an id with a row it overwrites name,
\* icon, color, description and updated_at with the values of the event,
\* keeps id and created_at, and changes the row of no other list.
C32_ListUpdatedProjection ==
  (last.op = "appendEvent" /\ last.arg.type = "ListUpdated")
    => LET id == last.arg.aggregateId
           before == last.pre.listProjections[id]
           d == last.arg.data
       IN /\ last.err = NoErr
          /\ before = NoRow => listProjections[id] = NoRow
          /\ before # NoRow =>
               listProjections[id] =
                 [id |-> before.id, name |-> d.name, icon |-> d.icon, color |-> d.color,
                  description |-> Undef, created_at |-> before.created_at,
                  updated_at |-> toISOString(d.updatedAt)]
          /\ \A other \in ListIds \ {id} :
               listProjections[other] = last.pre.listProjections[other]

\* a row overwritten in every field the event carries, its created_at older
\* than the event, next to the row of another list
C32_Witness ==
  /\ last.op = "appendEvent" /\ last.arg.type = "ListUpdated"
  /\ last.pre.listProjections[last.arg.aggregateId] # NoRow
  /\ last.pre.listProjections[last.arg.aggregateId].name = NameA
  /\ listProjections[last.arg.aggregateId].name = NameB
  /\ listProjections[last.arg.aggregateId].created_at # toISOString(last.arg.data.createdAt)
  /\ \E other \in ListIds \ {last.arg.aggregateId} : listProjections[other] # NoRow

\* the same event for an id that has no row, while another list has one
C32_WitnessNoRow ==
  /\ last.op = "appendEvent" /\ last.arg.type = "ListUpdated"
  /\ last.pre.listProjections[last.arg.aggregateId] = NoRow
  /\ \E other \in ListIds \ {last.arg.aggregateId} : listProjections[other] # NoRow

\* C33: updateItem(id, {name: n}) on an existing item changes only name and
\* updated_at of its itemProjections row; url, type, jsonLd, image,
\* description, created_at and id keep the values they had before the call.
C33_UpdateItemNameOnly ==
  (last.op = "updateItem" /\ Has(last.arg.updates, "name")
     /\ last.pre.itemProjections[last.arg.id] # NoRow)
    => LET before == last.pre.itemProjections[last.arg.id]
           after == itemProjections[last.arg.id]
       IN /\ after # NoRow
          /\ [after EXCEPT !.name = before.name, !.updated_at = before.updated_at] = before

\* the row renamed by the call and its jsonLd replaced by the empty object
C33_JsonLdLost ==
  /\ last.op = "updateItem" /\ Has(last.arg.updates, "name") /\ last.ret = TRUE
  /\ last.pre.itemProjections[last.arg.id] # NoRow
  /\ itemProjections[last.arg.id].name = last.arg.updates.name
  /\ last.pre.itemProjections[last.arg.id].jsonLd # JsonEmpty
  /\ itemProjections[last.arg.id].jsonLd = JsonEmpty

\* C34: an Item update that changes nothing emits no event; through
\* ItemService.updateItem, passing the values the stored item already has
\* appends no ItemUpdated event to the log.
C34_SameValuesAppendNothing ==
  (last.op = "updateItem" /\ last.arg.updates \in StoredValuesOf(last.pre.itemProjections[last.arg.id]))
    => itemEvents = last.pre.itemEvents

\* the call answered true and the log grew by one ItemUpdated event
C34_EventForNoChange ==
  /\ last.op = "updateItem" /\ last.ret = TRUE
  /\ last.arg.updates \in StoredValuesOf(last.pre.itemProjections[last.arg.id])
  /\ Len(itemEvents) = Len(last.pre.itemEvents) + 1
  /\ itemEvents[Len(itemEvents)].type = "ItemUpdated"

StoredDuringFault ==
  /\ last.op \in {"createItem", "deleteItem"}
  /\ last.arg.fault = WriteFailed
  /\ Len(itemEvents) > Len(last.pre.itemEvents)

\* C35: when a projection-table write fails while a service command is
\* appending its events, the command returns its failure value (null or
\* false): none reports success with its event in the log and its
\* projection effect missing.
C35_FailedProjectionReported ==
  StoredDuringFault
    => /\ last.op = "createItem" => last.ret = Null
       /\ last.op = "deleteItem" => last.ret = FALSE

\* deleteItem answers true, its ItemDeleted event is in the log and the row
\* it should have removed is still there
C35_SuccessWithoutProjection ==
  /\ StoredDuringFault
  /\ last.op = "deleteItem" /\ last.ret = TRUE
  /\ itemEvents[Len(itemEvents)].type = "ItemDeleted"
  /\ itemProjections[last.arg.id] # NoRow

\* the name a reader of the event's data finds, the aggregate being src
PayloadName(e, src) ==
  IF src.kind = "List" THEN PayloadMetadata(e, src).name
  ELSE IF ItemData(e, src).defined THEN ItemData(e, src).name
  ELSE Undef

\* C36: the payload of an event already emitted does not change when the
\* aggregate is mutated later: after rename (List) or updateMetadata (Item)
\* every event that was in the uncommitted buffer before the call still
\* shows the name it showed before the call.
C36_EmittedPayloadsFixed ==
  (last.op \in {"rename", "updateMetadata"} /\ last.err = NoErr)
    => \A i \in DOMAIN last.pre.uncommittedEvents :
         PayloadName(agg.uncommittedEvents[i], agg)
           = PayloadName(last.pre.uncommittedEvents[i], last.pre)

\* List.create('a', ...) followed by rename to another name: the ListCreated
\* event in the buffer now shows the new name
C36_CreatedEventRenamed ==
  /\ last.op = "rename" /\ last.err = NoErr /\ agg.kind = "List"
  /\ Len(last.pre.uncommittedEvents) = 1
  /\ agg.uncommittedEvents[1].type = "ListCreated"
  /\ PayloadName(last.pre.uncommittedEvents[1], last.pre) = NameA
  /\ PayloadName(agg.uncommittedEvents[1], agg) = last.arg
  /\ last.arg # NameA

\* the same for the ItemCreated event after updateMetadata
C36_ItemCreatedEventRenamed ==
  /\ last.op = "updateMetadata" /\ last.err = NoErr /\ agg.kind = "Item"
  /\ Len(last.pre.uncommittedEvents) = 1
  /\ agg.uncommittedEvents[1].type = "ItemCreated"
  /\ PayloadName(agg.uncommittedEvents[1], agg)
       # PayloadName(last.pre.uncommittedEvents[1], last.pre)

ItemCalls == {"addItem", "removeItem", "reorderItem"}

IsUnknown(e) == e.type \in {UnknownListType, UnknownItemType}

UnknownEvent(type, id, n, now) == createDomainEvent(type, ListSnapshot(NameB, now), id, n, now)

\* the events of the aggregate with an unknown one before, after or instead
HistoriesWithUnknown(a, now) ==
  LET own == EmittedEvents(a)
      type == IF a.kind = "List" THEN UnknownListType ELSE UnknownItemType
  IN {<<UnknownEvent(type, a.id, 1, now)>>,
      own \o <<UnknownEvent(type, a.id, Len(own) + 1, now)>>,
      <<UnknownEvent(type, a.id, MaxSeq, now)>> \o own}

\* a run works on one aggregate in memory or on the store
DoNewList == written = 0 /\ DoListCreate

DoNewItem == written = 0 /\ DoItemCreate

DoRenameList == written = 0 /\ DoRename

DoStoreEvent == agg = NoAgg /\ DoAppendAnyEvent

DoHydrateWithUnknown ==
  /\ agg # NoAgg
  /\ \E events \in HistoriesWithUnknown(agg, Now) :
       /\ Len(events) <= MaxSeq
       /\ AggCall("hydrateAggregate", events, Ret(hydrateAggregate(agg, events, agg)),
                  NoAgg, last.members)

DoAppendUnknown ==
  /\ agg = NoAgg
  /\ \E type \in {UnknownListType, UnknownItemType}, id \in {LogId, "u1"} :
       LET e == UnknownEvent(type, id, 2, Now)
       IN StoreCallWithin(MaxItemLog, "appendEvent", e,
                          Result(appendEvent(DB, e, NoAgg, Now), Null))

NextUnknown ==
  \/ DoNewList
  \/ DoNewItem
  \/ DoRenameList
  \/ DoHydrateWithUnknown
  \/ DoStoreEvent
  \/ DoAppendUnknown

SpecUnknown == Init /\ [][NextUnknown]_vars

DomainFields(a) == [a EXCEPT !.events = << >>, !.uncommittedEvents = << >>, !.sequenceNo = 0]

C38_WitnessProjection ==
  /\ last.op = "appendEvent" /\ last.arg.type = UnknownListType
  /\ last.arg.aggregateId \in ListIds
  /\ listProjections[last.arg.aggregateId] # NoRow
  /\ Len(listEvents) = Len(last.pre.listEvents) + 1

\* the (item, list) pairs whose membership a deleteItem has ended and no
\* linkItemToList has set up again since, kept in last.members
Ended == last.members

EndedBy(ended, itemId) ==
  LET fresh == SelectSeq(<<"L1", "L2">>,
                         LAMBDA l : l \in LinkListIds
                                      /\ \A i \in DOMAIN ended : ended[i] # <<itemId, l>>)
  IN ended \o [i \in DOMAIN fresh |-> <<itemId, fresh[i]>>]

LinkedAgain(ended, itemId, listId) == SelectSeq(ended, LAMBDA p : p # <<itemId, listId>>)

MembershipCall(op, arg, r, ended) ==
  LET grown == getEventCount(r.db) - getEventCount(DB)
  IN /\ written + grown <= MaxItemLog
     /\ listEvents' = r.db.listEvents
     /\ itemEvents' = r.db.itemEvents
     /\ listProjections' = r.db.listProjections
     /\ itemProjections' = r.db.itemProjections
     /\ triples' = r.db.triples
     /\ written' = written + grown
     /\ last' = [op |-> op, arg |-> arg, pre |-> DB, preMembers |-> last.members,
                 err |-> NoErr, ret |-> r.ret, members |-> ended]
     /\ clock' = Now
     /\ UNCHANGED <<agg, pc>>

DoCreateMember ==
  \E p \in Payloads :
    MembershipCall("createItem", p, createItem(DB, p, Now), Ended)

DoDeleteMember ==
  \E id \in ItemIds :
    LET r == deleteItem(DB, id, Now)
    IN MembershipCall("deleteItem", [id |-> id], r,
                      IF r.ret THEN EndedBy(Ended, id) ELSE Ended)

DoLinkMember ==
  \E itemId \in ItemIds, listId \in LinkListIds :
    /\ Len(triples) < MaxTriples
    /\ MembershipCall("linkItemToList", [itemId |-> itemId, listId |-> listId],
                      linkItemToList(DB, itemId, listId, Now),
                      LinkedAgain(Ended, itemId, listId))

DoUnlinkMember ==
  \E itemId \in ItemIds, listId \in LinkListIds :
    MembershipCall("unlinkItemFromList", [itemId |-> itemId, listId |-> listId],
                   unlinkItemFromList(DB, itemId, listId), Ended)

NextMembership ==
  \/ DoCreateMember
  \/ DoDeleteMember
  \/ DoLinkMember
  \/ DoUnlinkMember

SpecMembership == Init /\ [][NextMembership]_vars

\* C39: from deleteItem(x) on, getItemsForList(l) does not return x for any
\* list l until linkItemToList(x, l) is called again, also when an item with
\* the same id is created again in between.
C39_DeleteEndsMembership ==
  \A i \in DOMAIN Ended :
    ~Includes(getItemsForList(DB, Ended[i][2]), Ended[i][1])

\* an item linked, deleted and created again: it is back in the list with no
\* linkItemToList since the deleteItem
C39_BackWithoutLink ==
  /\ last.op = "createItem"
  /\ \E i \in DOMAIN Ended :
       /\ last.pre.itemProjections[Ended[i][1]] = NoRow
       /\ Includes(getItemsForList(DB, Ended[i][2]), Ended[i][1])

\* the two surfaces that create items: the ItemService of the page and
\* createItemDirect of the background script
Surfaces == {"service", "direct"}
OtherSurface(p) == IF p = "service" THEN "direct" ELSE "service"

\* payloads of one page: PayloadC and PayloadD share the url 'u2'
RacePayloads == {PayloadA, PayloadC, PayloadD}

IdleCall == [at |-> "idle", payload |-> << >>, item |-> NoAgg, ret |-> NoAgg]

FieldsFor(p, payload) ==
  IF p = "service" THEN extractNormalizedFields(payload)
  ELSE extractNormalizedFieldsDirect(payload)

InitRace ==
  /\ agg = NoAgg
  /\ last = [op |-> "none", arg |-> "none", pre |-> NoAgg, preMembers |-> << >>,
             err |-> NoErr, ret |-> NoAgg, members |-> << >>]
  /\ clock = 0
  /\ listEvents = << >>
  /\ itemEvents = << >>
  /\ listProjections = EmptyListTable
  /\ itemProjections = EmptyItemTable
  /\ triples = << >>
  /\ written = 0
  /\ pc = [service |-> IdleCall, direct |-> IdleCall, overlapped |-> FALSE]

Step(op, p) ==
  last' = [op |-> op, arg |-> p, pre |-> DB, preMembers |-> << >>, err |-> NoErr,
           ret |-> pc[p].ret, members |-> << >>]

\* the call starts and issues its read of the url index
CallCreateItem ==
  \E p \in Surfaces, payload \in RacePayloads :
    /\ pc[p].at = "idle"
    /\ pc' = [pc EXCEPT ![p].at = "checking", ![p].payload = payload,
                        !.overlapped = @ \/ pc[OtherSurface(p)].at \notin {"idle", "done"}]
    /\ Step("call", p)
    /\ UNCHANGED <<agg, clock, storeVars, written>>

\* the read resolves: an existing row is returned, otherwise Item.create runs
\* and the write of its events is issued
CheckUrl ==
  \E p \in Surfaces :
    LET f == FieldsFor(p, pc[p].payload)
        existingItem == FirstByUrl(itemProjections, f.url)
        c == ItemCreate(f.id, f.name, f.url, f.type, pc[p].payload, f.image, f.description, Now)
    IN /\ pc[p].at = "checking"
       /\ pc' = IF existingItem # NoRow
                  THEN [pc EXCEPT ![p].at = "done", ![p].ret = existingItem]
                  ELSE [pc EXCEPT ![p].at = "appending", ![p].item = c.agg]
       /\ clock' = Now
       /\ Step("check", p)
       /\ UNCHANGED <<agg, storeVars, written>>

\* itemEvents.bulkAdd(events) takes effect
AddEvents ==
  \E p \in Surfaces :
    LET events == getAllUncommittedEvents(pc[p].item)
    IN /\ pc[p].at = "appending"
       /\ itemEvents' = itemEvents \o CloneAll(events, pc[p].item)
       /\ written' = written + Len(events)
       /\ pc' = [pc EXCEPT ![p].at = "projecting"]
       /\ Step("bulkAdd", p)
       /\ UNCHANGED <<agg, clock, listEvents, listProjections, itemProjections, triples>>

\* updateItemProjection(event) for each event, then markAllEventsAsCommitted
\* and the read of the row is issued
ProjectEvents ==
  \E p \in Surfaces :
    LET events == getAllUncommittedEvents(pc[p].item)
    IN /\ pc[p].at = "projecting"
       /\ itemProjections' = ProjectItems(itemProjections, events, pc[p].item)
       /\ pc' = [pc EXCEPT ![p].at = "returning",
                           ![p].item = markAllEventsAsCommitted(pc[p].item)]
       /\ Step("project", p)
       /\ UNCHANGED <<agg, clock, listEvents, itemEvents, listProjections, triples, written>>

\* itemProjections.get(id) resolves and the call returns
ReturnRow ==
  \E p \in Surfaces :
    LET id == pc[p].item.id
    IN /\ pc[p].at = "returning"
       /\ pc' = [pc EXCEPT ![p].at = "done",
                           ![p].ret = IF id # Undef /\ itemProjections[id] # NoRow
                                        THEN itemProjections[id] ELSE Null]
       /\ Step("return", p)
       /\ UNCHANGED <<agg, clock, storeVars, written>>

NextRace ==
  \/ CallCreateItem
  \/ CheckUrl
  \/ AddEvents
  \/ ProjectEvents
  \/ ReturnRow

SpecRace == InitRace /\ [][NextRace]_vars

BothDone == pc.service.at = "done" /\ pc.direct.at = "done"

SameUrl ==
  FieldsFor("service", pc.service.payload).url = FieldsFor("direct", pc.direct.payload).url

RowsWithUrl(url) == {id \in ItemIds : itemProjections[id] # NoRow /\ itemProjections[id].url = url}

CreatedEventsOf(id) ==
  SelectSeq(itemEvents, LAMBDA e : e.type = "ItemCreated" /\ e.aggregateId = id)

\* C40: when a createItem call of the ItemService and a createItemDirect call
\* for payloads with the same url interleave at their await points, then
\* afterwards at most one itemProjections row has that url and the log holds
\* at most one ItemCreated event per item id.
C40_OneItemPerUrl ==
  (BothDone /\ SameUrl)
    => /\ Cardinality(RowsWithUrl(FieldsFor("service", pc.service.payload).url)) <= 1
       /\ \A id \in ItemIds : Len(CreatedEventsOf(id)) <= 1

\* both calls read the url index before either wrote: two rows with one url
C40_TwoRowsOneUrl ==
  /\ BothDone /\ SameUrl /\ pc.overlapped
  /\ Cardinality(RowsWithUrl(FieldsFor("service", pc.service.payload).url)) = 2

\* the same payload on both surfaces: one row, two ItemCreated events of one id
C40_TwoCreatedEvents ==
  /\ BothDone /\ pc.overlapped /\ pc.service.payload = pc.direct.payload
  /\ \E id \in ItemIds : Len(CreatedEventsOf(id)) = 2

====
